---- MODULE Spec2Model ----
(***************************************************************************)
(* Job-Hunt tracker: the local store (load + contact migration + whole     *)
(* collection persistence), the editing of the collection and the          *)
(* import/export pipeline of src/App.tsx, and the Google Sheets service     *)
(* (find-or-create of the spreadsheet, row mapping, fetch, save, delete),   *)
(* whose calls are modelled step by step between their awaits.             *)
(*                                                                         *)
(* JavaScript values are modelled as tagged records [t, s, a]: t is the    *)
(* runtime type, s the text of a string/number (or the content token of an *)
(* object), a the elements of an array.  A JSON text is modelled by the    *)
(* value it denotes, or as "malformed".  An object property that is absent *)
(* and one that is present with the value undefined are kept apart:        *)
(* JSON.stringify is what turns the second into the first.                 *)
(***************************************************************************)
EXTENDS Integers, Sequences, FiniteSets, TLC

VARIABLES
    phase,          \* "unmounted" | "mounted": whether <App/> is alive
    slot,           \* localStorage item 'jobhunt_data'
    jobs,           \* useState<Job[]>           (App.tsx:13)
    download,       \* the JSON file on the operator's disk (export target / import source)
    reader,         \* the FileReader of handleFileChange
    pendingImport,  \* useState<Job[] | null>    (App.tsx:63)
    confirmConfig,  \* useState<{isOpen,title,onConfirm}> (App.tsx:55)
    toast,          \* useState<{message,type}|null> (App.tsx:54), "none" = null
    log,            \* last console.error diagnostic, "none" if nothing was logged
    crashed,        \* an exception escaped a handler (uncaught)
    state,          \* the sheets service's module state (part_002:20): spreadsheetId
    remote,         \* the operator's Drive: the files of the fixed name and their grids
    calls,          \* the calls of the sheets service in flight or last finished, per caller
    session,        \* what the session has seen: identifiers returned, calls started
    selectedJob,    \* useState<Job | null>      (App.tsx:46): the record of the detail view
    modal,          \* the add form: isAddModalOpen (App.tsx) and AddJobModal's state
    pending         \* the calls of the extraction service awaited by a handler

detailVars == <<selectedJob, modal, pending>>
appVars == <<phase, slot, jobs, download, reader, pendingImport, confirmConfig, toast, log, crashed,
             selectedJob, modal, pending>>
sheetVars == <<state, remote, calls, session>>
vars == <<phase, slot, jobs, download, reader, pendingImport, confirmConfig, toast, log, crashed,
          state, remote, calls, session, selectedJob, modal, pending>>

----------------------------------------------------------------------------
(* Bounds *)

MaxSlotLen == 2
MaxImportLen == 2
NumGenIds == 2
MaxJobs == 2
MaxRows == 2
MaxCalls == 2
MaxRaceCalls == 3
MaxEvents == 3
MaxEmails == 1
MaxInFlight == 1

----------------------------------------------------------------------------
(* JavaScript values *)

Absent == [t |-> "absent", s |-> "", a |-> <<>>]
Undefined == [t |-> "undefined", s |-> "", a |-> <<>>]
Null == [t |-> "null", s |-> "", a |-> <<>>]
Str(x) == [t |-> "string", s |-> x, a |-> <<>>]
Num(x) == [t |-> "number", s |-> x, a |-> <<>>]
Arr(xs) == [t |-> "array", s |-> "", a |-> xs]
Obj(x) == [t |-> "object", s |-> x, a |-> <<>>]

\* ToBoolean: undefined, null, "", 0 and NaN are falsy; arrays and objects are truthy
Truthy(v) ==
    CASE v.t \in {"absent", "undefined", "null"} -> FALSE
      [] v.t = "string" -> v.s # ""
      [] v.t = "number" -> v.s \notin {"0", "NaN"}
      [] OTHER -> TRUE

IsArray(v) == v.t = "array"
IsString(v) == v.t = "string"

\* a || b
Or(a, b) == IF Truthy(a) THEN a ELSE b

\* o.name: reading a property that is absent yields undefined
Get(o, name) == IF o[name].t = "absent" THEN Undefined ELSE o[name]

JobStatus == {"APPLIED", "INTERVIEWING", "OFFER", "REJECTED", "WISHLIST"}

FieldNames ==
    {"id", "company", "role", "location", "salaryRange", "status", "dateApplied",
     "description", "notes", "emails", "events", "contacts", "recruitingContact",
     "aiInsights"}

\* {} : an object none of whose properties is present
EmptyObject == [n \in FieldNames |-> Absent]

\* An element of a parsed array: k is typeof/shape, f the properties of an object
ObjElem(f) == [k |-> "object", f |-> f]
NullElem == [k |-> "null", f |-> EmptyObject]
NumElem == [k |-> "number", f |-> EmptyObject]

\* The contact both migrations synthesize from the legacy string
LegacyContact(genId, org) ==
    [id |-> genId, name |-> "Primary Contact", role |-> "", email |-> "",
     phone |-> "", linkedin |-> "", organization |-> org]

\* Math.random().toString(36).substr(2, 9)
GenId(i) == "g" \o ToString(i)
GenIds == {GenId(i) : i \in 1..NumGenIds}

\* new Date().toISOString()
Clock == {"2025-01-01T00:00:00.000Z"}

----------------------------------------------------------------------------
(* JSON texts *)

NoItem == [k |-> "absent", top |-> "", a |-> <<>>]
EmptyText == [k |-> "empty", top |-> "", a |-> <<>>]
Malformed == [k |-> "malformed", top |-> "", a |-> <<>>]
JsonArray(xs) == [k |-> "json", top |-> "array", a |-> xs]
JsonOther(top) == [k |-> "json", top |-> top, a |-> <<>>]

\* JSON.stringify drops the properties whose value is undefined
StringifyField(v) == IF v.t = "undefined" THEN Absent ELSE v
StringifyJob(j) == [n \in FieldNames |-> StringifyField(j[n])]
Stringify(js) == JsonArray([i \in 1..Len(js) |-> ObjElem(StringifyJob(js[i]))])

\* JSON.parse: [raised, top, a]
Parse(text) ==
    IF text.k = "json"
    THEN [raised |-> FALSE, top |-> text.top, a |-> text.a]
    ELSE [raised |-> TRUE, top |-> "", a |-> <<>>]

----------------------------------------------------------------------------
(* Local store: load with the contact migration (App.tsx:13-44) *)

RaisedElem == [k |-> "raised", f |-> EmptyObject]

\* Mutant: the first test is missing, so a contact is synthesized from the legacy
\* string even when contacts is already populated
MigrateJob_NoGuard(j, genId) ==
    IF j.k = "null" THEN RaisedElem
    ELSE IF Truthy(Get(j.f, "recruitingContact")) /\ IsString(Get(j.f, "recruitingContact"))
    THEN ObjElem([j.f EXCEPT
            !.contacts = Arr(<<LegacyContact(genId, Get(j.f, "recruitingContact").s)>>),
            !.recruitingContact = Undefined])
    ELSE IF Truthy(Get(j.f, "contacts")) THEN j
    ELSE ObjElem([j.f EXCEPT !.contacts = Arr(<<>>)])

\* Mutant: the synthesized contact is appended on every pass and the legacy field kept
MigrateJob_Append(j, genId) ==
    IF j.k = "null" THEN RaisedElem
    ELSE IF Truthy(Get(j.f, "recruitingContact")) /\ IsString(Get(j.f, "recruitingContact"))
    THEN ObjElem([j.f EXCEPT
            !.contacts = Arr((IF IsArray(j.f.contacts) THEN j.f.contacts.a ELSE <<>>)
                             \o <<LegacyContact(genId, Get(j.f, "recruitingContact").s)>>)])
    ELSE IF Truthy(Get(j.f, "contacts")) THEN j
    ELSE ObjElem([j.f EXCEPT !.contacts = Arr(<<>>)])

\* Mutant: the contact is synthesized but the legacy field is not cleared
MigrateJob_KeepLegacy(j, genId) ==
    IF j.k = "null" THEN RaisedElem
    ELSE IF Truthy(Get(j.f, "contacts")) THEN j
    ELSE IF Truthy(Get(j.f, "recruitingContact")) /\ IsString(Get(j.f, "recruitingContact"))
    THEN ObjElem([j.f EXCEPT
            !.contacts = Arr(<<LegacyContact(genId, Get(j.f, "recruitingContact").s)>>)])
    ELSE ObjElem([j.f EXCEPT !.contacts = Arr(<<>>)])

\* Mutant: a record with neither contacts nor a legacy string is returned as it is
MigrateJob_NoDefault(j, genId) ==
    IF j.k = "null" THEN RaisedElem
    ELSE IF Truthy(Get(j.f, "contacts")) THEN j
    ELSE IF Truthy(Get(j.f, "recruitingContact")) /\ IsString(Get(j.f, "recruitingContact"))
    THEN ObjElem([j.f EXCEPT
            !.contacts = Arr(<<LegacyContact(genId, Get(j.f, "recruitingContact").s)>>),
            !.recruitingContact = Undefined])
    ELSE ObjElem(j.f)

\* The callback of parsed.map: j is one element of the parsed array.
\* Reading j.contacts of null raises a TypeError; of a number it yields undefined.
MigrateJob(j, genId) ==
    IF j.k = "null" THEN RaisedElem
    ELSE IF Truthy(Get(j.f, "contacts")) THEN j
    ELSE IF Truthy(Get(j.f, "recruitingContact")) /\ IsString(Get(j.f, "recruitingContact"))
    THEN ObjElem([j.f EXCEPT
            !.contacts = Arr(<<LegacyContact(genId, Get(j.f, "recruitingContact").s)>>),
            !.recruitingContact = Undefined])
    ELSE ObjElem([j.f EXCEPT !.contacts = Arr(<<>>)])

\* The body of the try block: [raised, value]
TryLoad(saved, g) ==
    IF saved.k \in {"absent", "empty"}
    THEN [raised |-> FALSE, value |-> <<>>]
    ELSE LET p == Parse(saved) IN
         IF p.raised \/ p.top # "array"
         THEN [raised |-> TRUE, value |-> <<>>]
         ELSE LET mapped == [i \in 1..Len(p.a) |-> MigrateJob(p.a[i], g[i])] IN
              IF \E i \in 1..Len(p.a) : mapped[i].k = "raised"
              THEN [raised |-> TRUE, value |-> <<>>]
              ELSE [raised |-> FALSE, value |-> [i \in 1..Len(p.a) |-> mapped[i].f]]

\* Mutant: no catch clause, the exception leaves the initializer
LoadJobs_NoCatch(saved, g) ==
    LET r == TryLoad(saved, g) IN
    [jobs |-> r.value, log |-> "none", crashed |-> r.raised]

\* The useState initializer with its catch clause: [jobs, log, crashed]
LoadJobs(saved, g) ==
    LET r == TryLoad(saved, g) IN
    IF r.raised
    THEN [jobs |-> <<>>, log |-> "Failed to load jobs", crashed |-> FALSE]
    ELSE [jobs |-> r.value, log |-> "none", crashed |-> FALSE]

----------------------------------------------------------------------------
(* Import / export pipeline (App.tsx:130-249) *)

\* const contacts = ...; if (contacts.length === 0 && item.recruitingContact ...) push
SanitizeContacts(item, genId) ==
    LET given == IF IsArray(Get(item.f, "contacts")) THEN item.f.contacts.a ELSE <<>>
        legacy == Get(item.f, "recruitingContact")
    IN  IF Len(given) = 0 /\ Truthy(legacy) /\ IsString(legacy)
        THEN <<LegacyContact(genId, legacy.s)>>
        ELSE given

\* Mutant: the element's own identifier is ignored, every record gets a fresh one
SanitizeItem_FreshId(item, gc, gj, now) ==
    IF item.k \in {"null", "number"} THEN NullElem
    ELSE ObjElem(
        [id |-> Str(gj),
         company |-> Or(Get(item.f, "company"), Str("Unknown Company")),
         role |-> Or(Get(item.f, "role"), Str("Unknown Role")),
         location |-> Or(Get(item.f, "location"), Str("")),
         contacts |-> Arr(SanitizeContacts(item, gc)),
         salaryRange |-> Get(item.f, "salaryRange"),
         status |-> IF IsString(Get(item.f, "status")) /\ item.f.status.s \in JobStatus
                    THEN item.f.status ELSE Str("APPLIED"),
         dateApplied |-> Or(Get(item.f, "dateApplied"), Str(now)),
         description |-> Or(Get(item.f, "description"), Str("")),
         notes |-> Or(Get(item.f, "notes"), Str("")),
         emails |-> IF IsArray(Get(item.f, "emails")) THEN item.f.emails ELSE Arr(<<>>),
         events |-> IF IsArray(Get(item.f, "events")) THEN item.f.events ELSE Arr(<<>>),
         aiInsights |-> Or(Get(item.f, "aiInsights"), Obj("{}")),
         recruitingContact |-> Absent])

\* Mutant: the element's properties are copied as they are, nothing is defaulted
SanitizeItem_NoDefaults(item, gc, gj, now) ==
    IF item.k \in {"null", "number"} THEN NullElem
    ELSE ObjElem([item.f EXCEPT !.recruitingContact = Absent])

\* The callback of importedData.map: null for what is not an object, else a Job
\* literal built from the element's properties (recruitingContact is not copied)
SanitizeItem(item, gc, gj, now) ==
    IF item.k \in {"null", "number"} THEN NullElem
    ELSE ObjElem(
        [id |-> Or(Get(item.f, "id"), Str(gj)),
         company |-> Or(Get(item.f, "company"), Str("Unknown Company")),
         role |-> Or(Get(item.f, "role"), Str("Unknown Role")),
         location |-> Or(Get(item.f, "location"), Str("")),
         contacts |-> Arr(SanitizeContacts(item, gc)),
         salaryRange |-> Get(item.f, "salaryRange"),
         status |-> IF IsString(Get(item.f, "status")) /\ item.f.status.s \in JobStatus
                    THEN item.f.status ELSE Str("APPLIED"),
         dateApplied |-> Or(Get(item.f, "dateApplied"), Str(now)),
         description |-> Or(Get(item.f, "description"), Str("")),
         notes |-> Or(Get(item.f, "notes"), Str("")),
         emails |-> IF IsArray(Get(item.f, "emails")) THEN item.f.emails ELSE Arr(<<>>),
         events |-> IF IsArray(Get(item.f, "events")) THEN item.f.events ELSE Arr(<<>>),
         aiInsights |-> Or(Get(item.f, "aiInsights"), Obj("{}")),
         recruitingContact |-> Absent])

InvalidJsonMsg == "Invalid JSON file format"
NotAListMsg == "File must contain a list of jobs"
NoValidJobsMsg == "No valid jobs found in file"
ImportOkMsg == "Import successful! Dashboard updated."
ExportOkMsg == "Data exported successfully"

NotNull(e) == e.k # "null"

\* importedData.map(...).filter(j => j !== null)
SanitizedJobs(items, gc, gj, now) ==
    LET mapped == [i \in 1..Len(items) |-> SanitizeItem(items[i], gc[i], gj[i], now)]
        kept == SelectSeq(mapped, NotNull)
    IN  [i \in 1..Len(kept) |-> kept[i].f]

\* Mutant: the "zero survivors" test is missing, an empty result is accepted
ImportOutcome_NoEmptyCheck(text, gc, gj, now) ==
    LET p == Parse(text) IN
    IF p.raised THEN [accepted |-> FALSE, reason |-> InvalidJsonMsg, jobs |-> <<>>]
    ELSE IF p.top # "array" THEN [accepted |-> FALSE, reason |-> NotAListMsg, jobs |-> <<>>]
    ELSE [accepted |-> TRUE, reason |-> "", jobs |-> SanitizedJobs(p.a, gc, gj, now)]

\* Mutant: the Array.isArray test is missing, a non-array is mapped as if empty
ImportOutcome_NoShapeCheck(text, gc, gj, now) ==
    LET p == Parse(text) IN
    IF p.raised THEN [accepted |-> FALSE, reason |-> InvalidJsonMsg, jobs |-> <<>>]
    ELSE LET sanitized == SanitizedJobs(p.a, gc, gj, now) IN
         IF Len(sanitized) = 0
         THEN [accepted |-> FALSE, reason |-> NoValidJobsMsg, jobs |-> <<>>]
         ELSE [accepted |-> TRUE, reason |-> "", jobs |-> sanitized]

\* The decision of reader.onload: [accepted, reason, jobs]
ImportOutcome(text, gc, gj, now) ==
    LET p == Parse(text) IN
    IF p.raised THEN [accepted |-> FALSE, reason |-> InvalidJsonMsg, jobs |-> <<>>]
    ELSE IF p.top # "array" THEN [accepted |-> FALSE, reason |-> NotAListMsg, jobs |-> <<>>]
    ELSE LET sanitized == SanitizedJobs(p.a, gc, gj, now) IN
         IF Len(sanitized) = 0
         THEN [accepted |-> FALSE, reason |-> NoValidJobsMsg, jobs |-> <<>>]
         ELSE [accepted |-> TRUE, reason |-> "", jobs |-> sanitized]

----------------------------------------------------------------------------
(* Inputs: what the slot and the operator's file may hold *)

Dana == [id |-> "c1", name |-> "Dana", role |-> "Recruiter", email |-> "",
         phone |-> "", linkedin |-> "", organization |-> ""]

\* A record as the application writes it, before any contact information
BaseJob(id) ==
    [id |-> Str(id), company |-> Str("Acme"), role |-> Str("Engineer"),
     location |-> Str("Remote"), salaryRange |-> Absent, status |-> Str("OFFER"),
     dateApplied |-> Str("2024-01-01T00:00:00.000Z"), description |-> Str("JD"),
     notes |-> Str(""), emails |-> Arr(<<>>), events |-> Arr(<<>>),
     contacts |-> Absent, recruitingContact |-> Absent,
     aiInsights |-> Obj("{keySkills:[]}")]

LegacyElem == ObjElem([BaseJob("j1") EXCEPT !.recruitingContact = Str("Acme Staffing")])
CurrentElem == ObjElem([BaseJob("j2") EXCEPT !.contacts = Arr(<<Dana>>)])
EmptyContactsElem ==
    ObjElem([BaseJob("j1") EXCEPT !.contacts = Arr(<<>>),
                                  !.recruitingContact = Str("Acme Staffing")])
BothElem ==
    ObjElem([BaseJob("j2") EXCEPT !.contacts = Arr(<<Dana>>),
                                  !.recruitingContact = Str("Acme Staffing")])
SparseElem ==
    ObjElem([BaseJob("j1") EXCEPT !.location = Absent, !.aiInsights = Absent,
                                  !.recruitingContact = Num("7")])
OddElem ==
    ObjElem([BaseJob("j2") EXCEPT !.contacts = Str("n/a"), !.company = Str(""),
                                  !.status = Str("BOGUS")])
ForeignElem ==
    ObjElem([BaseJob("j3") EXCEPT !.company = Str("Globex"), !.contacts = Arr(<<Dana>>)])
PartialElem == ObjElem([EmptyObject EXCEPT !.company = Str("Acme")])

SlotElems == {LegacyElem, CurrentElem, EmptyContactsElem, BothElem, SparseElem,
              OddElem, NullElem, NumElem}
ImportElems == {ForeignElem, PartialElem, NullElem, NumElem}

SeqsUpTo(S, n) == UNION {[1..k -> S] : k \in 0..n}

SlotDocs ==
    {NoItem, EmptyText, Malformed, JsonOther("object"), JsonOther("null")}
        \cup {JsonArray(xs) : xs \in SeqsUpTo(SlotElems, MaxSlotLen)}
ImportDocs ==
    {Malformed, JsonOther("object")}
        \cup {JsonArray(xs) : xs \in SeqsUpTo(ImportElems, MaxImportLen)}

\* The slots the import/export runs start from: two complete records (one of them
\* migrated by the load), two incomplete ones, and no slot at all
DefaultSlot == JsonArray(<<CurrentElem, LegacyElem>>)
SlotSeeds == {DefaultSlot, JsonArray(<<SparseElem, OddElem>>), NoItem}
\* The file on disk in the runs that only load
DefaultFile == JsonArray(<<ForeignElem>>)

\* The draws of Math.random that matter: one identifier for each position of
\* `need`; the positions whose result does not use the draw get a fixed one
IdChoices(n, need) ==
    {[i \in 1..n |-> IF i \in need THEN h[i] ELSE GenId(1)] : h \in [need -> GenIds]}

UsesLoadId(j) == \E a, b \in GenIds : MigrateJob(j, a) # MigrateJob(j, b)
UsesContactId(item) ==
    \E a, b \in GenIds, now \in Clock :
        SanitizeItem(item, a, GenId(1), now) # SanitizeItem(item, b, GenId(1), now)
UsesJobId(item) ==
    \E a, b \in GenIds, now \in Clock :
        SanitizeItem(item, GenId(1), a, now) # SanitizeItem(item, GenId(1), b, now)

----------------------------------------------------------------------------
(* Sheets service: its module state and the remote side before any call *)

Callers == {"a", "b"}

\* The spreadsheets of the fixed title that may exist, and those create may return
OldSheetIds == {"s1", "s2"}
NewSheetId(i) == "n" \o ToString(i)
SheetIds == OldSheetIds \cup {NewSheetId(i) : i \in 1..MaxRaceCalls}

\* const state = { spreadsheetId: null, ... }; "" stands for null
InitialState == [spreadsheetId |-> ""]

NoCall ==
    [op |-> "none", job |-> EmptyObject, isNew |-> FALSE, id |-> Undefined,
     pc |-> "idle", sid |-> "", fsid |-> "", index |-> -1, reqs |-> <<>>,
     ret |-> <<>>, seen |-> {}]

NoDrive == [files |-> <<>>, restricted |-> FALSE, grids |-> [i \in SheetIds |-> <<>>]]

\* The application alone: the sheets service is never called
SheetIdle ==
    /\ state = InitialState
    /\ remote = NoDrive
    /\ calls = [c \in Callers |-> NoCall]
    /\ session = [returned |-> {}, started |-> 0]

----------------------------------------------------------------------------
(* State *)

NoToast == [message |-> "", type |-> "none"]
NoPending == [set |-> FALSE, jobs |-> <<>>]
NoOp == [kind |-> "noop", jobs |-> <<>>]
ClosedConfirm == [isOpen |-> FALSE, title |-> "", onConfirm |-> NoOp]
IdleReader == [state |-> "empty", text |-> NoItem]
NoSelection == [set |-> FALSE, job |-> EmptyObject]

\* AddJobModal's initial formData and contacts (LoginScreen.tsx:223-231)
EmptyForm ==
    [company |-> "", role |-> "", location |-> "", description |-> "",
     status |-> "APPLIED", contacts |-> <<>>]
ClosedModal == [open |-> FALSE, form |-> EmptyForm, parseError |-> "", isParsing |-> FALSE]

\* Before <App/> is constructed: only the storage and the file system hold anything
Unmounted ==
    /\ phase = "unmounted"
    /\ jobs = <<>>
    /\ reader = IdleReader
    /\ pendingImport = NoPending
    /\ confirmConfig = ClosedConfirm
    /\ toast = NoToast
    /\ log = "none"
    /\ crashed = FALSE
    /\ selectedJob = NoSelection
    /\ modal = ClosedModal
    /\ pending = {}

\* Import/export runs: any file, a slot of SlotSeeds
Init ==
    /\ Unmounted
    /\ slot \in SlotSeeds
    /\ download \in ImportDocs
    /\ SheetIdle

\* Load runs: any slot, one file
InitLoad ==
    /\ Unmounted
    /\ slot \in SlotDocs
    /\ download = DefaultFile
    /\ SheetIdle

\* <App/> is constructed: the jobs initializer runs, then the persistence effect
Mount ==
    /\ phase = "unmounted"
    /\ \E g \in IdChoices(Len(slot.a), {i \in 1..Len(slot.a) : UsesLoadId(slot.a[i])}) :
          LET r == LoadJobs(slot, g) IN
          /\ jobs' = r.jobs
          /\ log' = r.log
          /\ crashed' = r.crashed
          /\ slot' = IF r.crashed THEN slot ELSE Stringify(r.jobs)
    /\ phase' = "mounted"
    /\ UNCHANGED <<download, reader, pendingImport, confirmConfig, toast>>
    /\ UNCHANGED sheetVars
    /\ UNCHANGED detailVars

\* The page is closed or reloaded: component state is gone, storage and files stay
Unmount ==
    /\ phase = "mounted"
    /\ phase' = "unmounted"
    /\ jobs' = <<>>
    /\ reader' = IdleReader
    /\ pendingImport' = NoPending
    /\ confirmConfig' = ClosedConfirm
    /\ toast' = NoToast
    /\ log' = "none"
    /\ crashed' = FALSE
    /\ selectedJob' = NoSelection
    /\ modal' = ClosedModal
    /\ pending' = {}
    /\ UNCHANGED <<slot, download>>
    /\ UNCHANGED sheetVars

\* handleExportData
ExportData ==
    /\ phase = "mounted" /\ ~crashed
    /\ ~confirmConfig.isOpen
    /\ download' = Stringify(jobs)
    /\ toast' = [message |-> ExportOkMsg, type |-> "success"]
    /\ UNCHANGED <<phase, slot, jobs, reader, pendingImport, confirmConfig, log, crashed>>
    /\ UNCHANGED sheetVars
    /\ UNCHANGED detailVars

\* handleFileChange: the chosen file is handed to a FileReader
PickFile ==
    /\ phase = "mounted" /\ ~crashed
    /\ ~confirmConfig.isOpen
    /\ reader.state # "loading"
    /\ reader' = [state |-> "loading", text |-> download]
    /\ UNCHANGED <<phase, slot, jobs, download, pendingImport, confirmConfig, toast, log, crashed>>
    /\ UNCHANGED sheetVars
    /\ UNCHANGED detailVars

\* reader.onload
ReaderOnload ==
    /\ phase = "mounted" /\ ~crashed
    /\ reader.state = "loading"
    /\ \E gc \in IdChoices(Len(reader.text.a),
                            {i \in 1..Len(reader.text.a) : UsesContactId(reader.text.a[i])}),
          gj \in IdChoices(Len(reader.text.a),
                            {i \in 1..Len(reader.text.a) : UsesJobId(reader.text.a[i])}),
          now \in Clock :
          LET r == ImportOutcome(reader.text, gc, gj, now) IN
          IF r.accepted
          THEN /\ pendingImport' = [set |-> TRUE, jobs |-> r.jobs]
               /\ confirmConfig' = [isOpen |-> TRUE, title |-> "Import Data",
                                    onConfirm |-> [kind |-> "import", jobs |-> r.jobs]]
               /\ UNCHANGED toast
          ELSE /\ toast' = [message |-> r.reason, type |-> "error"]
               /\ UNCHANGED <<pendingImport, confirmConfig>>
    /\ reader' = [reader EXCEPT !.state = "done"]
    /\ UNCHANGED <<phase, slot, jobs, download, log, crashed>>
    /\ UNCHANGED sheetVars
    /\ UNCHANGED detailVars

\* closeConfirm
CloseConfirm(c) == [c EXCEPT !.isOpen = FALSE]

\* Mutant: the imported records are merged into the collection instead of replacing it
Confirm_Merge ==
    /\ phase = "mounted" /\ ~crashed
    /\ confirmConfig.isOpen
    /\ confirmConfig.onConfirm.kind = "import"
    /\ jobs' = confirmConfig.onConfirm.jobs \o jobs
    /\ slot' = Stringify(jobs')
    /\ pendingImport' = NoPending
    /\ confirmConfig' = CloseConfirm(confirmConfig)
    /\ toast' = [message |-> ImportOkMsg, type |-> "success"]
    /\ UNCHANGED <<phase, download, reader, log, crashed>>
    /\ UNCHANGED sheetVars
    /\ selectedJob' = NoSelection
    /\ UNCHANGED <<modal, pending>>

\* The Confirm button: runs confirmConfig.onConfirm (here the import's closure,
\* which also clears the selection), then the persistence effect
Confirm ==
    /\ phase = "mounted" /\ ~crashed
    /\ confirmConfig.isOpen
    /\ confirmConfig.onConfirm.kind = "import"
    /\ jobs' = confirmConfig.onConfirm.jobs
    /\ slot' = Stringify(jobs')
    /\ pendingImport' = NoPending
    /\ confirmConfig' = CloseConfirm(confirmConfig)
    /\ toast' = [message |-> ImportOkMsg, type |-> "success"]
    /\ UNCHANGED <<phase, download, reader, log, crashed>>
    /\ UNCHANGED sheetVars
    /\ selectedJob' = NoSelection
    /\ UNCHANGED <<modal, pending>>

\* The Cancel button: onCancel = closeConfirm
Cancel ==
    /\ phase = "mounted" /\ ~crashed
    /\ confirmConfig.isOpen
    /\ confirmConfig' = CloseConfirm(confirmConfig)
    /\ UNCHANGED <<phase, slot, jobs, download, reader, pendingImport, toast, log, crashed>>
    /\ UNCHANGED sheetVars
    /\ UNCHANGED detailVars

\* What the add form holds when it is submitted: company and role are required
\* inputs, the status comes from a select over the enumeration
FormChoices ==
    {[company |-> "Hooli", role |-> "Designer", location |-> "", description |-> "JD",
      status |-> "WISHLIST", contacts |-> <<Dana>>]}

\* Mutant: the status and the contacts entered in the form are ignored
NewJob_Blank(form, genId, now) ==
    [id |-> Str(genId), company |-> Str(form.company), role |-> Str(form.role),
     location |-> Str(form.location), description |-> Str(form.description),
     status |-> Str("APPLIED"), dateApplied |-> Str(now), notes |-> Str(""),
     emails |-> Arr(<<>>), events |-> Arr(<<>>), contacts |-> Arr(<<>>),
     aiInsights |-> Obj("{keySkills:[]}"), salaryRange |-> Absent,
     recruitingContact |-> Absent]

\* AddJobModal.handleSubmit, create mode
NewJob(form, genId, now) ==
    [id |-> Str(genId), company |-> Str(form.company), role |-> Str(form.role),
     location |-> Str(form.location), description |-> Str(form.description),
     status |-> Str(form.status), dateApplied |-> Str(now), notes |-> Str(""),
     emails |-> Arr(<<>>), events |-> Arr(<<>>), contacts |-> Arr(form.contacts),
     aiInsights |-> Obj("{keySkills:[]}"), salaryRange |-> Absent,
     recruitingContact |-> Absent]

\* handleSaveJob with no editingJob: the new record goes to the front
HandleSaveJob ==
    /\ phase = "mounted" /\ ~crashed
    /\ ~confirmConfig.isOpen
    /\ Len(jobs) < MaxJobs
    /\ \E form \in FormChoices, g \in GenIds, now \in Clock :
          jobs' = <<NewJob(form, g, now)>> \o jobs
    /\ slot' = Stringify(jobs')
    /\ toast' = [message |-> "New application tracked", type |-> "success"]
    /\ UNCHANGED <<phase, download, reader, pendingImport, confirmConfig, log, crashed>>
    /\ UNCHANGED sheetVars
    /\ UNCHANGED detailVars

\* The statuses the detail view's select is moved to
StatusChoices == {"INTERVIEWING"}

\* prev.map(j => j.id === updatedJob.id ? updatedJob : j)
ReplaceById(js, updatedJob) ==
    [k \in 1..Len(js) |-> IF js[k].id = updatedJob.id THEN updatedJob ELSE js[k]]

\* A record is opened from its card, its status select is moved and the view is
\* left again, as one step: JobDetailView.handleStatusChange ->
\* handleUpdateJob({...job, status})
HandleUpdateJob ==
    /\ phase = "mounted" /\ ~crashed
    /\ ~confirmConfig.isOpen
    /\ \E i \in 1..Len(jobs), st \in StatusChoices :
          /\ jobs[i].status # Str(st)
          /\ jobs' = ReplaceById(jobs, [jobs[i] EXCEPT !.status = Str(st)])
    /\ slot' = Stringify(jobs')
    /\ UNCHANGED <<phase, download, reader, pendingImport, confirmConfig, toast, log, crashed>>
    /\ UNCHANGED sheetVars
    /\ UNCHANGED detailVars

\* requestDeleteJob for any record of the collection: only the dialog is raised
RequestDeleteJob ==
    /\ phase = "mounted" /\ ~crashed
    /\ ~confirmConfig.isOpen
    /\ \E i \in 1..Len(jobs) :
          confirmConfig' = [isOpen |-> TRUE, title |-> "Delete Application",
                            onConfirm |-> [kind |-> "delete", jobs |-> <<>>, id |-> jobs[i].id]]
    /\ UNCHANGED <<phase, slot, jobs, download, reader, pendingImport, toast, log, crashed>>
    /\ UNCHANGED sheetVars
    /\ UNCHANGED detailVars

\* j.id !== id
OtherId(js, id) == SelectSeq(js, LAMBDA j : j.id # id)

\* Mutant: the delete closure leaves the selection as it is
ConfirmDelete_KeepSelection ==
    /\ phase = "mounted" /\ ~crashed
    /\ confirmConfig.isOpen
    /\ confirmConfig.onConfirm.kind = "delete"
    /\ jobs' = OtherId(jobs, confirmConfig.onConfirm.id)
    /\ slot' = Stringify(jobs')
    /\ confirmConfig' = CloseConfirm(confirmConfig)
    /\ toast' = [message |-> "Application deleted", type |-> "success"]
    /\ UNCHANGED <<phase, download, reader, pendingImport, log, crashed>>
    /\ UNCHANGED sheetVars
    /\ UNCHANGED detailVars

\* Mutant: the collection is filtered but the persistence effect does not run
ConfirmDelete_NoSave ==
    /\ phase = "mounted" /\ ~crashed
    /\ confirmConfig.isOpen
    /\ confirmConfig.onConfirm.kind = "delete"
    /\ jobs' = OtherId(jobs, confirmConfig.onConfirm.id)
    /\ slot' = slot
    /\ confirmConfig' = CloseConfirm(confirmConfig)
    /\ toast' = [message |-> "Application deleted", type |-> "success"]
    /\ UNCHANGED <<phase, download, reader, pendingImport, log, crashed>>
    /\ UNCHANGED sheetVars
    /\ selectedJob' = NoSelection
    /\ UNCHANGED <<modal, pending>>

\* The Confirm button when the dialog was raised by requestDeleteJob: the delete
\* closure runs (filter, setSelectedJob(null), closeConfirm, toast), then the
\* persistence effect
ConfirmDelete ==
    /\ phase = "mounted" /\ ~crashed
    /\ confirmConfig.isOpen
    /\ confirmConfig.onConfirm.kind = "delete"
    /\ jobs' = OtherId(jobs, confirmConfig.onConfirm.id)
    /\ slot' = Stringify(jobs')
    /\ confirmConfig' = CloseConfirm(confirmConfig)
    /\ toast' = [message |-> "Application deleted", type |-> "success"]
    /\ UNCHANGED <<phase, download, reader, pendingImport, log, crashed>>
    /\ UNCHANGED sheetVars
    /\ selectedJob' = NoSelection
    /\ UNCHANGED <<modal, pending>>

Next ==
    \/ Mount
    \/ ExportData
    \/ PickFile
    \/ ReaderOnload
    \/ Confirm
    \/ Cancel

Spec == Init /\ [][Next]_vars

\* The application is opened and closed again and again, nothing else is done
NextLoad ==
    \/ Mount
    \/ Unmount

LoadSpec == InitLoad /\ [][NextLoad]_vars

\* The slots and the file of the runs that edit the collection
EditSlots == {JsonArray(<<LegacyElem>>), JsonArray(<<OddElem>>), Malformed, NoItem}
EditFiles == {JsonArray(<<PartialElem>>)}

InitEdit ==
    /\ Unmounted
    /\ slot \in EditSlots
    /\ download \in EditFiles
    /\ SheetIdle

\* The collection is loaded, edited record by record, and replaced by imports
NextEdit ==
    \/ Mount
    \/ HandleSaveJob
    \/ HandleUpdateJob
    \/ RequestDeleteJob
    \/ ConfirmDelete
    \/ Cancel
    \/ PickFile
    \/ ReaderOnload
    \/ Confirm

EditSpec == InitEdit /\ [][NextEdit]_vars

----------------------------------------------------------------------------
(* Detail view and add form (ConfirmDialog.tsx:43-139, 254; LoginScreen.tsx:218-335; *)
(* App.tsx:46, 94-126, 405-412, 480, 489-492) with the extraction service   *)
(* (part_000) whose calls are awaited by their handlers                     *)

\* The fields of a JobEvent the handlers read; date is the value of
\* new Date(e.date).getTime()
JobEvent(id, title, date) == [id |-> id, title |-> title, date |-> date, completed |-> FALSE]

\* The EmailLog that handleAddEmail builds
EmailLog(id, now) ==
    [id |-> id, sender |-> "Unknown / Pasted", subject |-> "Correspondence Log",
     body |-> "pasted mail", date |-> now, summary |-> "summary"]

\* Array.prototype.sort with (a, b) => time(a.date) - time(b.date): stable
RECURSIVE InsertByDate(_, _)
InsertByDate(e, es) ==
    IF es = <<>> THEN <<e>>
    ELSE IF es[Len(es)].date <= e.date THEN Append(es, e)
    ELSE Append(InsertByDate(e, SubSeq(es, 1, Len(es) - 1)), es[Len(es)])

RECURSIVE SortByDate(_)
SortByDate(es) ==
    IF es = <<>> THEN <<>>
    ELSE InsertByDate(es[Len(es)], SortByDate(SubSeq(es, 1, Len(es) - 1)))

\* job.events.sort(...) in the render of the overview tab: the array is sorted
\* in place
SortInPlace(j) == [j EXCEPT !.events = Arr(SortByDate(j.events.a))]

\* The overview tab is rendered for the selection v.selectedJob: the sort acts on
\* the array of the selected record, which is the array of the collection's
\* record when the selection is that record
RenderOverview(v) ==
    [jobs |-> [k \in 1..Len(v.jobs) |->
                  IF v.jobs[k] = v.selectedJob.job THEN SortInPlace(v.jobs[k]) ELSE v.jobs[k]],
     selectedJob |-> [v.selectedJob EXCEPT !.job = SortInPlace(v.selectedJob.job)]]

\* handleUpdateJob as a handler created in a render whose selectedJob was
\* `closure` calls it, the state being now <<js, sel>>
AfterUpdate(js, sel, closure, updatedJob) ==
    [jobs |-> ReplaceById(js, updatedJob),
     selectedJob |-> IF closure.set /\ closure.job.id = updatedJob.id
                     THEN [set |-> TRUE, job |-> updatedJob]
                     ELSE sel]

\* { ...job.aiInsights, interviewQuestions: questions }
WithQuestions(ai) ==
    IF ai.t # "object" \/ ai.s = "{}" THEN Obj("{interviewQuestions}")
    ELSE IF ai.s = "{keySkills:[]}" THEN Obj("{keySkills:[],interviewQuestions}")
    ELSE ai

\* No dialog and no modal lies over the page
UIFree ==
    /\ phase = "mounted" /\ ~crashed
    /\ ~confirmConfig.isOpen
    /\ ~modal.open

\* A JobCard is clicked: setSelectedJob(job); the detail view mounts on its
\* overview tab
SelectJob ==
    /\ UIFree
    /\ ~selectedJob.set
    /\ \E i \in 1..Len(jobs) :
          LET v == RenderOverview([jobs |-> jobs,
                                   selectedJob |-> [set |-> TRUE, job |-> jobs[i]]]) IN
          /\ jobs' = v.jobs
          /\ selectedJob' = v.selectedJob
    /\ UNCHANGED <<phase, slot, download, reader, pendingImport, confirmConfig, toast, log, crashed>>
    /\ UNCHANGED <<modal, pending>>
    /\ UNCHANGED sheetVars

\* onBack, or the sidebar's Dashboard entry: setSelectedJob(null)
Back ==
    /\ UIFree
    /\ selectedJob.set
    /\ selectedJob' = NoSelection
    /\ UNCHANGED <<phase, slot, jobs, download, reader, pendingImport, confirmConfig, toast, log, crashed>>
    /\ UNCHANGED <<modal, pending>>
    /\ UNCHANGED sheetVars

\* handleStatusChange of the detail view: onUpdate({ ...job, status })
HandleStatusChange ==
    /\ UIFree
    /\ selectedJob.set
    /\ \E st \in StatusChoices :
          /\ selectedJob.job.status # Str(st)
          /\ LET v == AfterUpdate(jobs, selectedJob, selectedJob,
                                  [selectedJob.job EXCEPT !.status = Str(st)]) IN
             /\ jobs' = v.jobs
             /\ selectedJob' = v.selectedJob
    /\ slot' = Stringify(jobs')
    /\ UNCHANGED <<phase, download, reader, pendingImport, confirmConfig, toast, log, crashed>>
    /\ UNCHANGED <<modal, pending>>
    /\ UNCHANGED sheetVars

\* The dates entered in the Key Dates form
EventDates == {0, 1, 3}

\* handleSaveEvent: onUpdate({ ...job, events: [...job.events, event] }), then the
\* overview is rendered, then the persistence effect runs
HandleSaveEvent ==
    /\ UIFree
    /\ selectedJob.set
    /\ Len(selectedJob.job.events.a) < MaxEvents
    /\ \E d \in EventDates :
          LET es == selectedJob.job.events.a
              event == JobEvent("e" \o ToString(Len(es) + 1), "HR Screen", d)
              v == RenderOverview(AfterUpdate(jobs, selectedJob, selectedJob,
                      [selectedJob.job EXCEPT !.events = Arr(Append(es, event))])) IN
          /\ jobs' = v.jobs
          /\ selectedJob' = v.selectedJob
    /\ slot' = Stringify(jobs')
    /\ UNCHANGED <<phase, download, reader, pendingImport, confirmConfig, toast, log, crashed>>
    /\ UNCHANGED <<modal, pending>>
    /\ UNCHANGED sheetVars

\* toggleEventComplete(eventId), then render and persistence effect
ToggleEventComplete ==
    /\ UIFree
    /\ selectedJob.set
    /\ \E n \in 1..Len(selectedJob.job.events.a) :
          LET es == selectedJob.job.events.a
              updatedEvents == [k \in 1..Len(es) |->
                                  IF es[k].id = es[n].id
                                  THEN [es[k] EXCEPT !.completed = ~es[k].completed]
                                  ELSE es[k]]
              v == RenderOverview(AfterUpdate(jobs, selectedJob, selectedJob,
                      [selectedJob.job EXCEPT !.events = Arr(updatedEvents)])) IN
          /\ jobs' = v.jobs
          /\ selectedJob' = v.selectedJob
    /\ slot' = Stringify(jobs')
    /\ UNCHANGED <<phase, download, reader, pendingImport, confirmConfig, toast, log, crashed>>
    /\ UNCHANGED <<modal, pending>>
    /\ UNCHANGED sheetVars

\* The detail view's delete button, window.confirm answered with OK:
\* onDelete(job.id) = requestDeleteJob(id)
RequestDeleteSelected ==
    /\ UIFree
    /\ selectedJob.set
    /\ confirmConfig' = [isOpen |-> TRUE, title |-> "Delete Application",
                         onConfirm |-> [kind |-> "delete", jobs |-> <<>>,
                                        id |-> selectedJob.job.id]]
    /\ UNCHANGED <<phase, slot, jobs, download, reader, pendingImport, toast, log, crashed>>
    /\ UNCHANGED detailVars
    /\ UNCHANGED sheetVars

\* A call of the extraction service awaited by a handler: the function and the
\* `job` of the render the handler was created in
Request(fn, job) == [fn |-> fn, job |-> job]

Awaited(fn) == {r \in pending : r.fn = fn}

\* The button of a function is disabled while the view awaits its call; across
\* views, MaxInFlight calls of one function are followed
StartCall(fn, job) ==
    /\ Cardinality(Awaited(fn)) < MaxInFlight
    /\ pending' = pending \cup {Request(fn, job)}

\* handleGenerateQuestions up to its await (the button is disabled while
\* isGeneratingPrep)
StartQuestions ==
    /\ UIFree
    /\ selectedJob.set
    /\ StartCall("questions", selectedJob.job)
    /\ UNCHANGED <<phase, slot, jobs, download, reader, pendingImport, confirmConfig, toast, log, crashed>>
    /\ UNCHANGED <<selectedJob, modal>>
    /\ UNCHANGED sheetVars

\* handleAddEmail up to its await (newEmailText is not blank, the button is
\* disabled while isAnalyzingEmail)
StartEmail ==
    /\ UIFree
    /\ selectedJob.set
    /\ Len(selectedJob.job.emails.a) < MaxEmails
    /\ StartCall("email", selectedJob.job)
    /\ UNCHANGED <<phase, slot, jobs, download, reader, pendingImport, confirmConfig, toast, log, crashed>>
    /\ UNCHANGED <<selectedJob, modal>>
    /\ UNCHANGED sheetVars

\* How a call ends: getGenAI throws "API Key is missing" before any request is
\* sent; a request that was sent is answered or fails (the service rejects it, or
\* its text is not JSON).  The analyses drawn here suggest no event.
Outcomes == {"no key", "error", "ok"}
Failed(outcome) == outcome \in {"no key", "error"}

\* What console.error receives in the handler's catch
ErrorLogged(outcome) == IF outcome = "no key" THEN "API Key is missing" ELSE "service error"

\* The record the handler passes to onUpdate when its call succeeded: built from
\* the `job` of the handler's render
Extracted(r, outcome, g, now) ==
    IF r.fn = "questions"
    THEN [r.job EXCEPT !.aiInsights = WithQuestions(@)]
    ELSE [r.job EXCEPT !.emails = Arr(<<EmailLog(g, now)>> \o @.a)]

\* onUpdate(updatedJob) called by the continuation: handleUpdateJob of the render
\* the handler was created in, whose selectedJob was the handler's job
Applied(r, updatedJob) ==
    AfterUpdate(jobs, selectedJob, [set |-> TRUE, job |-> r.job], updatedJob)

\* Mutant: a failed call still logs the pasted text as an email
FinishExtraction_LogsOnFailure ==
    /\ phase = "mounted"
    /\ \E r \in pending :
          /\ r.fn \in {"questions", "email"}
          /\ \E outcome \in Outcomes, g \in {GenId(1)}, now \in Clock :
                LET a == Applied(r, Extracted(r, outcome, g, now))
                    v == IF selectedJob.set THEN a ELSE RenderOverview(a) IN
                /\ jobs' = v.jobs
                /\ selectedJob' = v.selectedJob
                /\ slot' = Stringify(jobs')
                /\ log' = IF Failed(outcome) THEN ErrorLogged(outcome) ELSE log
          /\ pending' = pending \ {r}
    /\ UNCHANGED <<phase, download, reader, pendingImport, confirmConfig, toast, crashed>>
    /\ UNCHANGED modal
    /\ UNCHANGED sheetVars

\* The continuation of handleGenerateQuestions / handleAddEmail after the await:
\* catch (console.error, alert) on failure, onUpdate on success; a selection set
\* from null mounts the detail view on its overview tab
FinishExtraction ==
    /\ phase = "mounted"
    /\ \E r \in pending :
          /\ r.fn \in {"questions", "email"}
          /\ \E outcome \in Outcomes, g \in {GenId(1)}, now \in Clock :
                IF Failed(outcome)
                THEN /\ log' = ErrorLogged(outcome)
                     /\ UNCHANGED <<jobs, selectedJob, slot>>
                ELSE LET a == Applied(r, Extracted(r, outcome, g, now))
                         v == IF selectedJob.set THEN a ELSE RenderOverview(a) IN
                     /\ jobs' = v.jobs
                     /\ selectedJob' = v.selectedJob
                     /\ slot' = Stringify(jobs')
                     /\ UNCHANGED log
          /\ pending' = pending \ {r}
    /\ UNCHANGED <<phase, download, reader, pendingImport, confirmConfig, toast, crashed>>
    /\ UNCHANGED modal
    /\ UNCHANGED sheetVars

\* openAddModal: the form opens empty
OpenAddModal ==
    /\ UIFree
    /\ modal' = [ClosedModal EXCEPT !.open = TRUE]
    /\ UNCHANGED <<phase, slot, jobs, download, reader, pendingImport, confirmConfig, toast, log, crashed>>
    /\ UNCHANGED <<selectedJob, pending>>
    /\ UNCHANGED sheetVars

\* The operator types into the form and adds a contact
FillForm ==
    /\ phase = "mounted" /\ modal.open
    /\ modal.form = EmptyForm
    /\ \E form \in FormChoices : modal' = [modal EXCEPT !.form = form]
    /\ UNCHANGED <<phase, slot, jobs, download, reader, pendingImport, confirmConfig, toast, log, crashed>>
    /\ UNCHANGED <<selectedJob, pending>>
    /\ UNCHANGED sheetVars

\* handleAIParse up to its await (pasteContent is not blank, the button is
\* disabled while isParsing)
StartParse ==
    /\ phase = "mounted" /\ modal.open
    /\ ~modal.isParsing
    /\ StartCall("parse", EmptyObject)
    /\ modal' = [modal EXCEPT !.isParsing = TRUE, !.parseError = ""]
    /\ UNCHANGED <<phase, slot, jobs, download, reader, pendingImport, confirmConfig, toast, log, crashed>>
    /\ UNCHANGED selectedJob
    /\ UNCHANGED sheetVars

ParseFailedMsg == "Could not parse job description. Please fill manually."

\* What parseJobDescription extracted from the pasted text (no contacts found)
ParsedFields == [company |-> "Initech", role |-> "Analyst", location |-> "Austin"]

\* The continuation of handleAIParse: the form is filled from the result, or the
\* error line is set; isParsing is cleared either way
FinishParse ==
    /\ phase = "mounted" /\ modal.open
    /\ \E r \in pending :
          /\ r.fn = "parse"
          /\ \E outcome \in Outcomes :
                /\ log' = IF Failed(outcome) THEN ErrorLogged(outcome) ELSE log
                /\ modal' = IF outcome = "ok"
                            THEN [modal EXCEPT !.isParsing = FALSE,
                                            !.form.company = ParsedFields.company,
                                            !.form.role = ParsedFields.role,
                                            !.form.location = ParsedFields.location,
                                            !.form.description = "pasted JD"]
                            ELSE [modal EXCEPT !.isParsing = FALSE,
                                            !.parseError = ParseFailedMsg]
          /\ pending' = pending \ {r}
    /\ UNCHANGED <<phase, slot, jobs, download, reader, pendingImport, confirmConfig, toast, crashed>>
    /\ UNCHANGED selectedJob
    /\ UNCHANGED sheetVars

\* onClose: the modal is unmounted; the continuation of a parse still awaited
\* only sets the state of the unmounted component
CloseModal ==
    /\ phase = "mounted" /\ modal.open
    /\ modal' = ClosedModal
    /\ pending' = {r \in pending : r.fn # "parse"}
    /\ UNCHANGED <<phase, slot, jobs, download, reader, pendingImport, confirmConfig, toast, log, crashed>>
    /\ UNCHANGED selectedJob
    /\ UNCHANGED sheetVars

\* The record of the runs on the detail view: two events stored latest first
DatedElem ==
    ObjElem([BaseJob("j1") EXCEPT
        !.contacts = Arr(<<Dana>>),
        !.events = Arr(<<JobEvent("e1", "Onsite", 2), JobEvent("e2", "Phone", 1)>>)])

InitDetail ==
    /\ Unmounted
    /\ slot = JsonArray(<<DatedElem>>)
    /\ download = DefaultFile
    /\ SheetIdle

\* One record is viewed, changed and deleted while extraction calls are in flight
NextDetail ==
    \/ Mount
    \/ SelectJob
    \/ Back
    \/ HandleStatusChange
    \/ RequestDeleteSelected
    \/ ConfirmDelete
    \/ Cancel
    \/ StartQuestions
    \/ StartEmail
    \/ FinishExtraction

DetailSpec == InitDetail /\ [][NextDetail]_vars

\* Three records, two of them with the same identifier
TrioSlot == JsonArray(<<CurrentElem, DatedElem, BothElem>>)

InitDelete ==
    /\ Unmounted
    /\ slot = TrioSlot
    /\ download = DefaultFile
    /\ SheetIdle

\* Records are viewed and deleted through the dialog, which imports raise too
NextDelete ==
    \/ Mount
    \/ SelectJob
    \/ Back
    \/ RequestDeleteSelected
    \/ ConfirmDelete
    \/ Cancel
    \/ PickFile
    \/ ReaderOnload
    \/ Confirm

DeleteSpec == InitDelete /\ [][NextDelete]_vars

\* The key dates of one record are shown, added and ticked off
NextEvent ==
    \/ Mount
    \/ SelectJob
    \/ Back
    \/ HandleStatusChange
    \/ HandleSaveEvent
    \/ ToggleEventComplete

EventSpec == InitDetail /\ [][NextEvent]_vars

\* The extraction calls of the detail view and of the add form, nothing else
NextExtract ==
    \/ Mount
    \/ SelectJob
    \/ Back
    \/ StartQuestions
    \/ StartEmail
    \/ FinishExtraction
    \/ OpenAddModal
    \/ FillForm
    \/ StartParse
    \/ FinishParse
    \/ CloseModal

ExtractSpec == InitDetail /\ [][NextExtract]_vars

----------------------------------------------------------------------------
(* Properties *)

\* Deep equality of two collections, a property whose value is undefined
\* counting as a property that is absent
DeepEqual(a, b) ==
    /\ Len(a) = Len(b)
    /\ \A i \in 1..Len(a) : StringifyJob(a[i]) = StringifyJob(b[i])

NonEmptyString(v) == v.t = "string" /\ v.s # ""

\* The import dialog is up for the text the reader holds
ImportDialogOpen ==
    /\ phase = "mounted"
    /\ confirmConfig.isOpen
    /\ confirmConfig.onConfirm.kind = "import"

\* The operator confirms the import of a document that is the export of the
\* collection as it is now
ConfirmsOwnExport ==
    /\ ImportDialogOpen
    /\ reader.state = "done"
    /\ reader.text = Stringify(jobs)
    /\ phase' = "mounted"
    /\ ~confirmConfig'.isOpen
    /\ toast'.message = ImportOkMsg

\* C1 (as stated): for every collection C, export, import of the exported document
\* and confirmation leave the collection deep-equal to C, order preserved.
C1_RoundTripAll == [][ConfirmsOwnExport => DeepEqual(jobs', jobs)]_vars

\* A record the sanitizer leaves as it is: nothing for a default to replace
Complete(j) ==
    /\ NonEmptyString(j.id) /\ NonEmptyString(j.company) /\ NonEmptyString(j.role)
    /\ NonEmptyString(j.dateApplied)
    /\ IsString(j.location) /\ IsString(j.description) /\ IsString(j.notes)
    /\ j.salaryRange.t \in {"absent", "undefined", "string"}
    /\ IsString(j.status) /\ j.status.s \in JobStatus
    /\ IsArray(j.emails) /\ IsArray(j.events) /\ IsArray(j.contacts)
    /\ j.aiInsights.t = "object"
    /\ j.recruitingContact.t \in {"absent", "undefined"}

AllComplete(js) == Len(js) > 0 /\ \A i \in 1..Len(js) : Complete(js[i])

\* C1 (amended): for every non-empty collection C all of whose records are complete
\* (non-empty id, company, role and dateApplied; location, description and notes
\* strings; status of the enumeration; emails, events and contacts arrays; an
\* aiInsights object; no recruitingContact), the exported document is accepted by
\* import and confirmation leaves the collection deep-equal to C, order preserved.
C1_RoundTripComplete ==
    [][/\ (ConfirmsOwnExport /\ AllComplete(jobs)) => DeepEqual(jobs', jobs)
       /\ (/\ phase = "mounted" /\ phase' = "mounted"
           /\ reader.state = "loading" /\ reader'.state = "done"
           /\ reader.text = Stringify(jobs) /\ AllComplete(jobs))
          => (/\ confirmConfig'.isOpen
              /\ confirmConfig'.onConfirm.kind = "import"
              /\ DeepEqual(confirmConfig'.onConfirm.jobs, jobs))]_vars

\* C1 witness: a two-record collection was exported, imported and confirmed, and the
\* collection still is what the document holds
C1_Witness ==
    /\ phase = "mounted"
    /\ toast.message = ImportOkMsg
    /\ reader.state = "done"
    /\ reader.text = Stringify(jobs)
    /\ download = reader.text
    /\ Len(jobs) = 2 /\ jobs[1] # jobs[2]
    /\ AllComplete(jobs)

\* The reader's load event is handled in this step
OnloadStep ==
    /\ phase = "mounted" /\ phase' = "mounted"
    /\ reader.state = "loading" /\ reader'.state = "done"

NothingApplied ==
    /\ jobs' = jobs
    /\ slot' = slot
    /\ confirmConfig' = confirmConfig
    /\ pendingImport' = pendingImport

NoSurvivor(items) ==
    \A i \in 1..Len(items) : \A g \in GenIds, now \in Clock :
        SanitizeItem(items[i], g, g, now).k = "null"

\* C2: when the imported text is a sequence none of whose elements survives the
\* sanitizer, import fails with the "no valid records" reason, raises no dialog and
\* leaves the collection and the slot as they are; a dialog never offers an empty
\* replacement.
C2_RejectsEmpty ==
    [][/\ (OnloadStep /\ reader.text.k = "json" /\ reader.text.top = "array"
             /\ NoSurvivor(reader.text.a))
          => (toast' = [message |-> NoValidJobsMsg, type |-> "error"] /\ NothingApplied)
       /\ (confirmConfig'.isOpen /\ confirmConfig'.onConfirm.kind = "import")
          => Len(confirmConfig'.onConfirm.jobs) > 0]_vars

\* C2 witness: a non-empty sequence of non-objects was rejected while records exist
C2_Witness ==
    /\ phase = "mounted"
    /\ reader.state = "done"
    /\ reader.text = JsonArray(<<NullElem, NumElem>>)
    /\ toast.message = NoValidJobsMsg
    /\ ~confirmConfig.isOpen /\ ~pendingImport.set
    /\ Len(jobs) > 0 /\ slot = Stringify(jobs)

\* C3: a text that is not well-formed fails with the parse-error reason, a
\* well-formed text that is not a sequence with the shape-error reason; either way
\* the collection, the slot, the dialog and the pending import are untouched.
C3_RejectsMalformed ==
    [][/\ (OnloadStep /\ reader.text.k # "json")
          => (toast' = [message |-> InvalidJsonMsg, type |-> "error"] /\ NothingApplied)
       /\ (OnloadStep /\ reader.text.k = "json" /\ reader.text.top # "array")
          => (toast' = [message |-> NotAListMsg, type |-> "error"] /\ NothingApplied)]_vars

\* C3 witness: "{}" was rejected as not a list while records exist
C3_Witness ==
    /\ phase = "mounted"
    /\ reader.state = "done"
    /\ reader.text = JsonOther("object")
    /\ toast.message = NotAListMsg
    /\ ~confirmConfig.isOpen /\ ~pendingImport.set
    /\ Len(jobs) > 0 /\ slot = Stringify(jobs)

\* C4: accepting an import leaves the collection as it is; while the import dialog
\* is up a step either leaves the collection as it is or is the confirmation, which
\* closes the dialog and makes the collection exactly the accepted sequence; Cancel
\* leaves it as it is; and the accepted sequence never becomes the collection
\* without the dialog being up.
C4_ReplaceOnConfirmOnly ==
    [][(phase = "mounted" /\ phase' = "mounted") =>
        /\ OnloadStep => (jobs' = jobs /\ slot' = slot)
        /\ Cancel => (jobs' = jobs /\ slot' = slot)
        /\ ImportDialogOpen =>
              \/ jobs' = jobs /\ slot' = slot
              \/ /\ ~confirmConfig'.isOpen
                 /\ pendingImport.set
                 /\ confirmConfig.onConfirm.jobs = pendingImport.jobs
                 /\ jobs' = pendingImport.jobs
                 /\ slot' = Stringify(pendingImport.jobs)
        /\ (pendingImport.set /\ jobs' # jobs /\ jobs' = pendingImport.jobs)
              => confirmConfig.isOpen]_vars

\* C4 witness: the default collection (j2, j1) was replaced by the one record of the
\* imported file; nothing of the previous collection is left
C4_Witness ==
    /\ phase = "mounted"
    /\ toast.message = ImportOkMsg
    /\ ~confirmConfig.isOpen /\ ~pendingImport.set
    /\ reader.text = DefaultFile
    /\ jobs = confirmConfig.onConfirm.jobs
    /\ Len(jobs) = 1 /\ jobs[1].id = Str("j3")
    /\ slot = Stringify(jobs)

----------------------------------------------------------------------------
(* Properties of the load-time migration *)

\* The elements of the array the slot holds (none if it holds no array)
SlotElements == IF slot.k = "json" /\ slot.top = "array" THEN slot.a ELSE <<>>

\* <App/> is constructed in this step, reading the slot as it is now
MountStep == phase = "unmounted" /\ phase' = "mounted"

\* The load of this step did not fail as a whole
LoadSucceeded == log' = "none" /\ ~crashed'

\* C5: migration is idempotent: migrating the result of migrating a raw record
\* changes nothing, whatever identifiers are drawn; so every record the load
\* returned, and every record of the collection, is a fixed point of the migration.
C5_MigrationIdempotent ==
    /\ \A i \in 1..Len(SlotElements) : \A g1, g2 \in GenIds :
          LET once == MigrateJob(SlotElements[i], g1) IN
          once.k # "raised" => MigrateJob(once, g2) = once
    /\ phase = "mounted" =>
          \A i \in 1..Len(jobs) : \A g \in GenIds :
              MigrateJob(ObjElem(jobs[i]), g) = ObjElem(jobs[i])

\* C5 witness: the load migrated a legacy record, and migrating what it returned,
\* with another identifier drawn, gives the same record
C5_Witness ==
    /\ phase = "mounted" /\ log = "none"
    /\ \E i \in 1..Len(jobs) :
          /\ jobs[i].recruitingContact = Undefined
          /\ Len(jobs[i].contacts.a) = 1
          /\ jobs[i].contacts.a[1].id = GenId(1)
          /\ MigrateJob(ObjElem(jobs[i]), GenId(2)) = ObjElem(jobs[i])

\* A raw record the claim C6 is about: contacts not a non-empty sequence, the
\* deprecated field a non-empty string
LegacyShape(e) ==
    /\ e.k = "object"
    /\ ~(IsArray(e.f.contacts) /\ Len(e.f.contacts.a) > 0)
    /\ NonEmptyString(e.f.recruitingContact)

LegacyNoContacts(e) ==
    /\ e.k = "object"
    /\ ~Truthy(e.f.contacts)
    /\ NonEmptyString(e.f.recruitingContact)

CurrentShape(e) ==
    e.k = "object" /\ IsArray(e.f.contacts) /\ Len(e.f.contacts.a) > 0

\* C7: a raw record whose contacts is a non-empty sequence is returned by the
\* migration as it is, and a load that succeeds holds it unchanged at its position.
C7_MigrationNoOp ==
    [][MountStep =>
        \A i \in 1..Len(SlotElements) :
            CurrentShape(SlotElements[i]) =>
                /\ \A g \in GenIds : MigrateJob(SlotElements[i], g) = SlotElements[i]
                /\ LoadSucceeded =>
                      (Len(jobs') = Len(SlotElements) /\ jobs'[i] = SlotElements[i].f)]_vars

\* C7 witness: the load returned the record that has both a contact and the legacy
\* string exactly as stored
C7_Witness ==
    /\ phase = "mounted" /\ log = "none"
    /\ Len(jobs) = 2
    /\ jobs[1] = CurrentElem.f
    /\ jobs[2] = BothElem.f

WellFormed(e) == e.k = "object" /\ Complete(e.f)

\* C9 (as stated): when the slot holds a sequence, the load does not fail as a
\* whole whatever elements it has, and the well-formed records of the slot are
\* returned, in order.
C9_MalformedElementIsolated ==
    [][(MountStep /\ slot.k = "json" /\ slot.top = "array") =>
        /\ LoadSucceeded
        /\ \A i \in 1..Len(slot.a) :
              WellFormed(slot.a[i]) =>
                  \E k \in 1..Len(jobs') : jobs'[k] = slot.a[i].f]_vars

\* C10: when the slot is absent or empty the load yields the empty collection; when
\* its text does not parse, or parses to something the migration cannot map, the
\* load yields the empty collection and logs a diagnostic; no exception leaves the
\* initializer.
C10_LoadNeverFatal ==
    [][MountStep =>
        /\ ~crashed'
        /\ slot.k \in {"absent", "empty"} => (jobs' = <<>> /\ log' = "none")
        /\ slot.k = "malformed" => (jobs' = <<>> /\ log' = "Failed to load jobs")
        /\ (slot.k = "json" /\ slot.top # "array")
              => (jobs' = <<>> /\ log' = "Failed to load jobs")]_vars

\* C10 witness: the application runs with an empty collection after a load that
\* failed and was logged
C10_Witness ==
    /\ phase = "mounted"
    /\ ~crashed
    /\ log = "Failed to load jobs"
    /\ jobs = <<>>
    /\ slot = Stringify(<<>>)
    /\ download = DefaultFile
    /\ reader.state = "empty"

----------------------------------------------------------------------------
(* Sheets service (part_002): rows, and the calls as they run between awaits *)

ColNames ==
    {"id", "company", "role", "location", "status", "dateApplied", "description",
     "notes", "events", "emails", "aiInsights"}

SHEET_TITLE == "JobHunt AI Tracker"

\* The values written to Jobs!A1:K1
HeaderRow ==
    [id |-> Str("ID"), company |-> Str("Company"), role |-> Str("Role"),
     location |-> Str("Location"), status |-> Str("Status"),
     dateApplied |-> Str("Date Applied"), description |-> Str("Description"),
     notes |-> Str("Notes"), events |-> Str("Events (JSON)"),
     emails |-> Str("Emails (JSON)"), aiInsights |-> Str("AI Insights (JSON)")]

\* A row none of whose cells holds anything: values.get returns it as []
EmptyRow == [c \in ColNames |-> Undefined]

\* A string that is the JSON text of v
JsonText(v) == [t |-> "string", s |-> "json", a |-> <<v>>]

\* JSON.stringify(v): undefined for undefined, else the text of v
StringifyValue(v) == IF v.t \in {"absent", "undefined"} THEN Undefined ELSE JsonText(v)

\* JSON.parse(cell): [raised, value]
ParseCell(c) ==
    IF c.t = "string" /\ c.s = "json"
    THEN [raised |-> FALSE, value |-> c.a[1]]
    ELSE [raised |-> TRUE, value |-> Undefined]

\* Mutant: the notes column is written empty
RowData_DropNotes(job) ==
    [id |-> Get(job, "id"), company |-> Get(job, "company"), role |-> Get(job, "role"),
     location |-> Or(Get(job, "location"), Str("")),
     status |-> Get(job, "status"), dateApplied |-> Get(job, "dateApplied"),
     description |-> Get(job, "description"), notes |-> Str(""),
     events |-> StringifyValue(Get(job, "events")),
     emails |-> StringifyValue(Get(job, "emails")),
     aiInsights |-> StringifyValue(Or(Get(job, "aiInsights"), Obj("{}")))]

\* saveJob: const rowData = [...]
RowData(job) ==
    [id |-> Get(job, "id"), company |-> Get(job, "company"), role |-> Get(job, "role"),
     location |-> Or(Get(job, "location"), Str("")),
     status |-> Get(job, "status"), dateApplied |-> Get(job, "dateApplied"),
     description |-> Get(job, "description"), notes |-> Get(job, "notes"),
     events |-> StringifyValue(Get(job, "events")),
     emails |-> StringifyValue(Get(job, "emails")),
     aiInsights |-> StringifyValue(Or(Get(job, "aiInsights"), Obj("{}")))]

\* row[k] ? JSON.parse(row[k]) : dflt
ParseOr(cell, dflt) ==
    IF Truthy(cell) THEN ParseCell(cell) ELSE [raised |-> FALSE, value |-> dflt]

\* The callback of rows.map in fetchJobs: a record, or null when a JSON column of
\* the row does not parse
DecodeRow(row, now) ==
    LET ev == ParseOr(row.events, Arr(<<>>))
        em == ParseOr(row.emails, Arr(<<>>))
        ai == ParseOr(row.aiInsights, Obj("{}"))
    IN  IF ev.raised \/ em.raised \/ ai.raised THEN NullElem
        ELSE ObjElem(
            [id |-> Or(row.id, Str("")), company |-> Or(row.company, Str("")),
             role |-> Or(row.role, Str("")), location |-> Or(row.location, Str("")),
             status |-> Or(row.status, Str("APPLIED")),
             dateApplied |-> Or(row.dateApplied, Str(now)),
             description |-> Or(row.description, Str("")), notes |-> Or(row.notes, Str("")),
             events |-> ev.value, emails |-> em.value, aiInsights |-> ai.value,
             contacts |-> Absent, salaryRange |-> Absent, recruitingContact |-> Absent])

\* Mutant: no try/catch around the row, one undecodable row empties the result
FetchedJobs_NoCatch(rows, now) ==
    LET mapped == [i \in 1..Len(rows) |-> DecodeRow(rows[i], now)] IN
    IF \E i \in 1..Len(rows) : mapped[i].k = "null" THEN <<>>
    ELSE [i \in 1..Len(rows) |-> mapped[i].f]

\* rows.map(...).filter(j => j !== null)
FetchedJobs(rows, now) ==
    LET mapped == [i \in 1..Len(rows) |-> DecodeRow(rows[i], now)]
        kept == SelectSeq(mapped, NotNull)
    IN  [i \in 1..Len(kept) |-> kept[i].f]

\* jobs.findIndex(j => j.id === id): 0-based, -1 when there is none
FindIndex(js, id) ==
    IF \E k \in 1..Len(js) : js[k].id = id
    THEN (CHOOSE k \in 1..Len(js) : js[k].id = id /\ \A m \in 1..(k - 1) : js[m].id # id) - 1
    ELSE -1

\* values.get leaves out the empty rows at the end of the range
RECURSIVE StripTrailing(_)
StripTrailing(rows) ==
    IF Len(rows) > 0 /\ rows[Len(rows)] = EmptyRow
    THEN StripTrailing(SubSeq(rows, 1, Len(rows) - 1))
    ELSE rows

\* values.get of Jobs!A2:K1000 on a grid whose first row is the header row
DataRows(grid) == IF Len(grid) <= 1 THEN <<>> ELSE StripTrailing(Tail(grid))

\* values.update of one row: a cell given as null is skipped
WriteRow(grid, n, values) ==
    LET padded == [k \in 1..(IF n > Len(grid) THEN n ELSE Len(grid)) |->
                      IF k <= Len(grid) THEN grid[k] ELSE EmptyRow]
    IN  [padded EXCEPT ![n] = [c \in ColNames |->
                                  IF values[c] = Undefined THEN padded[n][c] ELSE values[c]]]

\* deleteDimension ROWS [g, g+1): grid row g+1 goes, the rows below move up
DeleteRow(grid, g) ==
    IF g + 1 > Len(grid) THEN grid
    ELSE [k \in 1..(Len(grid) - 1) |-> IF k <= g THEN grid[k] ELSE grid[k + 1]]

\* A request as the remote side receives it
Req(api, sid, row, values) ==
    [api |-> api, sid |-> sid, row |-> row, values |-> values,
     title |-> IF api \in {"drive.files.list", "spreadsheets.create"} THEN SHEET_TITLE ELSE ""]

\* Rows the sheet may hold before the session: two records, a row whose events
\* column is not JSON, and a blank row
GoodRow(id) == RowData(BaseJob(id))
BadRow == [GoodRow("j3") EXCEPT !.events = Str("[oops")]
RowInputs == {GoodRow("j1"), GoodRow("j2"), BadRow, EmptyRow}

GridInputs == {<<HeaderRow>> \o rows : rows \in SeqsUpTo(RowInputs, MaxRows)}
DefaultGrid == <<HeaderRow, GoodRow("j1"), GoodRow("j2")>>

Drive(files, restricted, grid) ==
    [files |-> files, restricted |-> restricted,
     grids |-> [i \in SheetIds |-> IF i = "s1" THEN grid
                                   ELSE IF i = "s2" THEN <<HeaderRow>> ELSE <<>>]]

\* What the operator's Drive may hold: nothing of the title, one spreadsheet with
\* any grid, two of the same title, or one that a restricted scope cannot list
DriveInputs ==
    {NoDrive, Drive(<<"s1", "s2">>, FALSE, DefaultGrid), Drive(<<"s1">>, TRUE, DefaultGrid)}
        \cup {Drive(<<"s1">>, FALSE, g) : g \in GridInputs}

\* The records saveJob is called with: j1 with a note added, a record without
\* location and aiInsights, and a record no row holds
SaveInputs ==
    {[BaseJob("j1") EXCEPT !.notes = Str("called"), !.contacts = Arr(<<>>)],
     [BaseJob("j2") EXCEPT !.location = Absent, !.aiInsights = Absent,
                           !.contacts = Arr(<<>>)],
     [BaseJob("j9") EXCEPT !.contacts = Arr(<<>>)]}
DeleteInputs == {Str("j1"), Str("j9")}

\* The calls a caller may make: [op, job, isNew, id]
CallInputs ==
    {[op |-> "getSpreadsheet", job |-> EmptyObject, isNew |-> FALSE, id |-> Undefined],
     [op |-> "fetchJobs", job |-> EmptyObject, isNew |-> FALSE, id |-> Undefined]}
        \cup {[op |-> "saveJob", job |-> j, isNew |-> n, id |-> Undefined] :
                j \in SaveInputs, n \in BOOLEAN}
        \cup {[op |-> "deleteJob", job |-> EmptyObject, isNew |-> FALSE, id |-> i] :
                i \in DeleteInputs}

Running(call) == call.pc \notin {"idle", "done"}

\* getSpreadsheet has returned id to the call; the cache holds `cache`.  saveJob
\* (not new) and deleteJob then call fetchJobs, whose own getSpreadsheet returns
\* the cache
AfterResolve(call, id, cache) ==
    LET c1 == [call EXCEPT !.sid = id] IN
    CASE call.op = "getSpreadsheet" -> [c1 EXCEPT !.pc = "done"]
      [] call.op = "fetchJobs" -> [c1 EXCEPT !.pc = "get", !.fsid = id]
      [] call.op = "saveJob" /\ call.isNew -> [c1 EXCEPT !.pc = "append"]
      [] OTHER -> [c1 EXCEPT !.pc = "get", !.fsid = cache]

\* The identifiers getSpreadsheet has returned once the call is past AfterResolve
ReturnedBy(call) ==
    IF call.pc = "get" THEN {call.sid, call.fsid} ELSE {call.sid}

\* A function of the service is called with one of `inputs`, as one of at most
\* `limit` calls of the session.  The second caller only calls while the first has
\* a call in flight.
Start(c, inputs, limit) ==
    /\ ~Running(calls[c])
    /\ session.started < limit
    /\ c = "b" => Running(calls["a"])
    /\ \E in \in inputs :
          LET new == [NoCall EXCEPT !.op = in.op, !.job = in.job, !.isNew = in.isNew,
                                    !.id = in.id, !.seen = session.returned]
          IN  IF state.spreadsheetId # ""
              THEN LET r == AfterResolve(new, state.spreadsheetId, state.spreadsheetId) IN
                   /\ calls' = [calls EXCEPT ![c] = r]
                   /\ session' = [returned |-> session.returned \cup ReturnedBy(r),
                                  started |-> session.started + 1]
              ELSE /\ calls' = [calls EXCEPT ![c] = [new EXCEPT !.pc = "list"]]
                   /\ session' = [session EXCEPT !.started = @ + 1]
    /\ UNCHANGED <<state, remote>>
    /\ UNCHANGED appVars

\* Mutant: the search result is ignored, a spreadsheet is created every time
List_AlwaysCreate(c) ==
    /\ calls[c].pc = "list"
    /\ calls' = [calls EXCEPT ![c] =
          [@ EXCEPT !.pc = "create",
                    !.reqs = Append(@, Req("drive.files.list", "", 0, EmptyRow))]]
    /\ UNCHANGED <<state, remote, session>>
    /\ UNCHANGED appVars

\* getSpreadsheet: drive.files.list answers (or fails)
List(c) ==
    /\ calls[c].pc = "list"
    /\ LET logged == [calls[c] EXCEPT
                         !.reqs = Append(@, Req("drive.files.list", "", 0, EmptyRow))]
       IN  IF ~remote.restricted /\ Len(remote.files) > 0
           THEN LET r == AfterResolve(logged, remote.files[1], remote.files[1]) IN
                /\ state' = [state EXCEPT !.spreadsheetId = remote.files[1]]
                /\ calls' = [calls EXCEPT ![c] = r]
                /\ session' = [session EXCEPT !.returned = @ \cup ReturnedBy(r)]
           ELSE /\ calls' = [calls EXCEPT ![c] = [logged EXCEPT !.pc = "create"]]
                /\ UNCHANGED <<state, session>>
    /\ UNCHANGED remote
    /\ UNCHANGED appVars

\* The spreadsheets created so far
Created == {i \in 1..MaxRaceCalls : \E k \in 1..Len(remote.files) : remote.files[k] = NewSheetId(i)}

\* getSpreadsheet: spreadsheets.create answers; the new identifier is cached and
\* the header write is sent
Create(c) ==
    /\ calls[c].pc = "create"
    /\ LET newId == NewSheetId(Cardinality(Created) + 1) IN
       /\ remote' = [remote EXCEPT !.files = Append(@, newId)]
       /\ state' = [state EXCEPT !.spreadsheetId = newId]
       /\ calls' = [calls EXCEPT ![c] =
             [@ EXCEPT !.pc = "header", !.sid = newId,
                       !.reqs = Append(@, Req("spreadsheets.create", newId, 0, EmptyRow))]]
    /\ UNCHANGED session
    /\ UNCHANGED appVars

\* getSpreadsheet: the header write answers, newId is returned
Header(c) ==
    /\ calls[c].pc = "header"
    /\ LET logged == [calls[c] EXCEPT
                         !.reqs = Append(@, Req("values.update", calls[c].sid, 1, HeaderRow))]
           r == AfterResolve(logged, calls[c].sid, state.spreadsheetId)
       IN  /\ remote' = [remote EXCEPT !.grids[calls[c].sid] = WriteRow(@, 1, HeaderRow)]
           /\ calls' = [calls EXCEPT ![c] = r]
           /\ session' = [session EXCEPT !.returned = @ \cup ReturnedBy(r)]
    /\ UNCHANGED state
    /\ UNCHANGED appVars

\* Mutant: a record that no fetched row holds is appended
AfterFetch_Upsert(call, fetched) ==
    LET index == FindIndex(fetched, IF call.op = "saveJob" THEN call.job.id ELSE call.id) IN
    IF call.op = "fetchJobs" THEN [call EXCEPT !.pc = "done", !.ret = fetched]
    ELSE IF index # -1
    THEN [call EXCEPT !.index = index,
                      !.pc = IF call.op = "saveJob" THEN "update" ELSE "delete"]
    ELSE [call EXCEPT !.index = index,
                      !.pc = IF call.op = "saveJob" THEN "append" ELSE "done"]

\* Mutant: the position is taken one row too low
AfterFetch_NextRow(call, fetched) ==
    LET index == FindIndex(fetched, IF call.op = "saveJob" THEN call.job.id ELSE call.id) IN
    IF call.op = "fetchJobs" THEN [call EXCEPT !.pc = "done", !.ret = fetched]
    ELSE IF index # -1
    THEN [call EXCEPT !.index = index + 1,
                      !.pc = IF call.op = "saveJob" THEN "update" ELSE "delete"]
    ELSE [call EXCEPT !.index = index, !.pc = "done"]

\* What the caller of fetchJobs does with the records: fetchJobs returns them;
\* saveJob and deleteJob look for the identifier and go on only if it is found
AfterFetch(call, fetched) ==
    LET index == FindIndex(fetched, IF call.op = "saveJob" THEN call.job.id ELSE call.id) IN
    IF call.op = "fetchJobs" THEN [call EXCEPT !.pc = "done", !.ret = fetched]
    ELSE IF index # -1
    THEN [call EXCEPT !.index = index,
                      !.pc = IF call.op = "saveJob" THEN "update" ELSE "delete"]
    ELSE [call EXCEPT !.index = index, !.pc = "done"]

\* fetchJobs: values.get answers and the rows are decoded
GetRows(c) ==
    /\ calls[c].pc = "get"
    /\ \E now \in Clock :
          LET logged == [calls[c] EXCEPT
                            !.reqs = Append(@, Req("values.get", calls[c].fsid, 0, EmptyRow))]
              fetched == FetchedJobs(DataRows(remote.grids[calls[c].fsid]), now)
          IN  calls' = [calls EXCEPT ![c] = AfterFetch(logged, fetched)]
    /\ UNCHANGED <<state, remote, session>>
    /\ UNCHANGED appVars

\* saveJob, isNew: values.append puts the row after the last row of the table
AppendRow(c) ==
    /\ calls[c].pc = "append"
    /\ Len(remote.grids[calls[c].sid]) <= MaxRows
    /\ remote' = [remote EXCEPT !.grids[calls[c].sid] = Append(@, RowData(calls[c].job))]
    /\ calls' = [calls EXCEPT ![c] =
          [@ EXCEPT !.pc = "done",
                    !.reqs = Append(@, Req("values.append", calls[c].sid,
                                           Len(remote.grids[calls[c].sid]) + 1,
                                           RowData(calls[c].job)))]]
    /\ UNCHANGED <<state, session>>
    /\ UNCHANGED appVars

\* saveJob, not new: values.update of Jobs!A{index+2}:K{index+2}
UpdateRow(c) ==
    /\ calls[c].pc = "update"
    /\ remote' = [remote EXCEPT !.grids[calls[c].sid] =
                     WriteRow(@, calls[c].index + 2, RowData(calls[c].job))]
    /\ calls' = [calls EXCEPT ![c] =
          [@ EXCEPT !.pc = "done",
                    !.reqs = Append(@, Req("values.update", calls[c].sid,
                                           calls[c].index + 2, RowData(calls[c].job)))]]
    /\ UNCHANGED <<state, session>>
    /\ UNCHANGED appVars

\* deleteJob: batchUpdate deleteDimension of grid index index+1
DeleteDimension(c) ==
    /\ calls[c].pc = "delete"
    /\ remote' = [remote EXCEPT !.grids[calls[c].sid] = DeleteRow(@, calls[c].index + 1)]
    /\ calls' = [calls EXCEPT ![c] =
          [@ EXCEPT !.pc = "done",
                    !.reqs = Append(@, Req("deleteDimension", calls[c].sid,
                                           calls[c].index + 2, EmptyRow))]]
    /\ UNCHANGED <<state, session>>
    /\ UNCHANGED appVars

\* A session of the sheets service; the application's collection is not involved
InitSheet ==
    /\ Unmounted
    /\ slot = NoItem
    /\ download = DefaultFile
    /\ state = InitialState
    /\ remote \in DriveInputs
    /\ calls = [c \in Callers |-> NoCall]
    /\ session = [returned |-> {}, started |-> 0]

\* One caller that awaits every call before it makes the next
NextSheet ==
    \/ Start("a", CallInputs, MaxCalls)
    \/ List("a")
    \/ Create("a")
    \/ Header("a")
    \/ GetRows("a")
    \/ AppendRow("a")
    \/ UpdateRow("a")
    \/ DeleteDimension("a")

SheetSpec == InitSheet /\ [][NextSheet]_vars

\* The calls and the Drives of the runs in which calls overlap
RaceInputs ==
    {in \in CallInputs :
        \/ in.op \in {"getSpreadsheet", "fetchJobs"}
        \/ in.op = "saveJob" /\ in.job.id = Str("j9")
        \/ in.op = "deleteJob" /\ in.id = Str("j1")}
RaceDrives == {NoDrive, Drive(<<"s1">>, FALSE, DefaultGrid), Drive(<<"s1">>, TRUE, DefaultGrid)}

InitRace ==
    /\ Unmounted
    /\ slot = NoItem
    /\ download = DefaultFile
    /\ state = InitialState
    /\ remote \in RaceDrives
    /\ calls = [c \in Callers |-> NoCall]
    /\ session = [returned |-> {}, started |-> 0]

\* Two callers: a call may be made while another is still awaiting an answer
NextRace ==
    \/ \E c \in Callers : Start(c, RaceInputs, MaxRaceCalls)
    \/ \E c \in Callers : List(c)
    \/ \E c \in Callers : Create(c)
    \/ \E c \in Callers : Header(c)
    \/ \E c \in Callers : GetRows(c)
    \/ \E c \in Callers : AppendRow(c)
    \/ \E c \in Callers : UpdateRow(c)
    \/ \E c \in Callers : DeleteDimension(c)

RaceSpec == InitRace /\ [][NextRace]_vars

\* A sheet of decodable rows only, one more than MaxRows, and two writers: one
\* overwrites or deletes j2, the other deletes j1, the row above it
WriterGrid == <<HeaderRow>> \o [i \in 1..(MaxRows + 1) |-> GoodRow("j" \o ToString(i))]
WriterInputs ==
    {[op |-> "saveJob", job |-> [BaseJob("j2") EXCEPT !.notes = Str("called")],
      isNew |-> FALSE, id |-> Undefined],
     [op |-> "deleteJob", job |-> EmptyObject, isNew |-> FALSE, id |-> Str("j2")],
     [op |-> "deleteJob", job |-> EmptyObject, isNew |-> FALSE, id |-> Str("j1")]}

InitWriter ==
    /\ Unmounted
    /\ slot = NoItem
    /\ download = DefaultFile
    /\ state = InitialState
    /\ remote = Drive(<<"s1">>, FALSE, WriterGrid)
    /\ calls = [c \in Callers |-> NoCall]
    /\ session = [returned |-> {}, started |-> 0]

\* Two writers on the spreadsheet that exists: each call reads, then writes
NextWriter ==
    \/ \E c \in Callers : Start(c, WriterInputs, MaxCalls)
    \/ \E c \in Callers : List(c)
    \/ \E c \in Callers : GetRows(c)
    \/ \E c \in Callers : UpdateRow(c)
    \/ \E c \in Callers : DeleteDimension(c)

WriterSpec == InitWriter /\ [][NextWriter]_vars

----------------------------------------------------------------------------
(* Properties of persistence, of the sanitizer and of the status *)

\* C11: whenever the application is up (after the initial load, also one that fell
\* back to the empty collection, and after every add, update, confirmed delete and
\* confirmed import) the slot holds the serialization of exactly the collection in
\* memory; requesting a deletion, cancelling and reading a file leave both alone.
C11_WholeCollectionPersisted ==
    (phase = "mounted" /\ ~crashed) => slot = Stringify(jobs)

\* C11 witness: after a load that fell back to the empty collection, an import, an
\* add, an update and a confirmed delete, the slot holds the one record left
C11_Witness ==
    /\ phase = "mounted"
    /\ log = "Failed to load jobs"
    /\ toast.message = "Application deleted"
    /\ ~confirmConfig.isOpen
    /\ Len(jobs) = 1
    /\ jobs[1].status = Str("INTERVIEWING")
    /\ slot = JsonArray(<<ObjElem(jobs[1])>>)

\* The object elements of an imported array, in order
ObjectElems(items) == SelectSeq(items, LAMBDA e : e.k = "object")

\* r is what the claim C19 says the sanitizer makes of the object element e
SanitizedAsStated(e, r) ==
    /\ IF Truthy(e.f.id) THEN r.id = e.f.id ELSE (IsString(r.id) /\ r.id.s \in GenIds)
    /\ r.company = (IF Truthy(e.f.company) THEN e.f.company ELSE Str("Unknown Company"))
    /\ r.role = (IF Truthy(e.f.role) THEN e.f.role ELSE Str("Unknown Role"))
    /\ e.f.status.t \in {"absent", "undefined"} => r.status = Str("APPLIED")
    /\ IF Truthy(e.f.dateApplied) THEN r.dateApplied = e.f.dateApplied
       ELSE (IsString(r.dateApplied) /\ r.dateApplied.s \in Clock)
    /\ e.f.notes.t \in {"absent", "undefined"} => r.notes = Str("")
    /\ e.f.description.t \in {"absent", "undefined"} => r.description = Str("")
    /\ IsArray(r.emails) /\ (~IsArray(e.f.emails) => r.emails = Arr(<<>>))
    /\ IsArray(r.events) /\ (~IsArray(e.f.events) => r.events = Arr(<<>>))
    /\ IsArray(r.contacts)
    /\ (~IsArray(e.f.contacts) /\ ~NonEmptyString(e.f.recruitingContact))
          => r.contacts = Arr(<<>>)

\* C19: when the imported text is a sequence with at least one object element, the
\* import is accepted with one record for each object element, in order, and every
\* such record has the element's identifier or a generated one, the element's
\* company and role or the placeholders, status APPLIED when the element has none,
\* a dateApplied, empty notes and description when missing, and emails, events and
\* contacts that are sequences, empty when the element has no array there (and, for
\* contacts, no deprecated contact string).
C19_ImportSanitizesPartial ==
    [][(OnloadStep /\ reader.text.k = "json" /\ reader.text.top = "array"
            /\ Len(ObjectElems(reader.text.a)) > 0) =>
        LET objs == ObjectElems(reader.text.a) IN
        /\ pendingImport'.set
        /\ Len(pendingImport'.jobs) = Len(objs)
        /\ \A k \in 1..Len(objs) : SanitizedAsStated(objs[k], pendingImport'.jobs[k])]_vars

\* C19 witness: [{"company":"Acme"}] was imported and confirmed
C19_Witness ==
    /\ phase = "mounted"
    /\ reader.text = JsonArray(<<PartialElem>>)
    /\ toast.message = ImportOkMsg
    /\ Len(jobs) = 1
    /\ jobs[1].company = Str("Acme") /\ jobs[1].role = Str("Unknown Role")
    /\ jobs[1].id.s \in GenIds
    /\ jobs[1].status = Str("APPLIED")
    /\ jobs[1].dateApplied.s \in Clock
    /\ jobs[1].contacts = Arr(<<>>) /\ jobs[1].events = Arr(<<>>) /\ jobs[1].emails = Arr(<<>>)

\* C20 (as stated): after any sequence of load, add, update, delete and confirmed
\* import every record of the collection has a status of the enumeration.
C20_StatusInEnumeration ==
    phase = "mounted" =>
        \A i \in 1..Len(jobs) : IsString(jobs[i].status) /\ jobs[i].status.s \in JobStatus

----------------------------------------------------------------------------
(* Properties of the sheets service *)

\* The values.get of call c is answered in this step
GetStep(c) == calls[c].pc = "get" /\ calls'[c].pc # "get"

\* The sheet rows (2, 3, ...) of a grid whose identifier column is id
HoldingRows(grid, id) == {n \in 2..Len(grid) : grid[n].id = id}

\* C12 (as stated): saveOne(record, isNew=false): whenever some row of the sheet
\* holds record.id, whatever the other rows hold, an overwrite is issued and its range
\* is a sheet row that holds that identifier.
C12_OverwritesRowOfId ==
    [][\A c \in Callers :
        (GetStep(c) /\ calls[c].op = "saveJob" /\ ~calls[c].isNew) =>
            LET holds == HoldingRows(remote.grids[calls[c].fsid], calls[c].job.id) IN
            holds # {} => (calls'[c].pc = "update" /\ (calls'[c].index + 2) \in holds)]_vars

\* C13 (as stated): deleteOne(identifier): whenever some data row of the sheet holds
\* the identifier, whatever the other rows hold, a row deletion is issued and its
\* grid index (header 0, first data row 1) is that of a row holding the identifier.
C13_DeletesRowOfId ==
    [][\A c \in Callers :
        (GetStep(c) /\ calls[c].op = "deleteJob") =>
            LET holds == HoldingRows(remote.grids[calls[c].fsid], calls[c].id) IN
            holds # {} => (calls'[c].pc = "delete" /\ (calls'[c].index + 1) + 1 \in holds)]_vars

\* No request that changes a data row: only the search, the creation of the
\* spreadsheet with its header row, and the read
NoRowMutation(reqs) ==
    \A k \in 1..Len(reqs) :
        \/ reqs[k].api \in {"drive.files.list", "spreadsheets.create", "values.get"}
        \/ reqs[k].api = "values.update" /\ reqs[k].row = 1 /\ reqs[k].values = HeaderRow

\* C14: saveOne with isNew=false, or deleteOne, with an identifier that no fetched
\* row holds ends after the fetch: the sheet is left as it is and the call issues
\* no overwrite, no deletion and no append.
C14_NotFoundNoOp ==
    [][\A c \in Callers :
        (/\ GetStep(c)
         /\ \/ calls[c].op = "saveJob" /\ ~calls[c].isNew
               /\ HoldingRows(remote.grids[calls[c].fsid], calls[c].job.id) = {}
            \/ calls[c].op = "deleteJob"
               /\ HoldingRows(remote.grids[calls[c].fsid], calls[c].id) = {})
        => (/\ calls'[c].pc = "done"
            /\ calls'[c].index = -1
            /\ remote' = remote
            /\ NoRowMutation(calls'[c].reqs))]_vars

\* C14 witness: saveJob(j9, false) ended on a sheet with two other records, after
\* the search and the read only
C14_Witness ==
    /\ calls["a"].op = "saveJob" /\ ~calls["a"].isNew
    /\ calls["a"].job.id = Str("j9")
    /\ calls["a"].pc = "done"
    /\ calls["a"].index = -1
    /\ remote.grids["s1"] = DefaultGrid
    /\ Len(calls["a"].reqs) = 2
    /\ calls["a"].reqs[2].api = "values.get" /\ calls["a"].reqs[2].sid = "s1"

\* Each JSON column of the row is empty or parses
Decodable(row) ==
    \A col \in {"events", "emails", "aiInsights"} :
        ~Truthy(row[col]) \/ ~ParseCell(row[col]).raised

\* C15: fetchAll returns one record for each data row whose JSON columns decode,
\* in sheet order, whatever the other rows hold; a row that does not decode is
\* left out and the fetch does not fail.
C15_MalformedRowSkipped ==
    [][\A c \in Callers :
        (GetStep(c) /\ calls[c].op = "fetchJobs") =>
            LET good == SelectSeq(DataRows(remote.grids[calls[c].fsid]), Decodable) IN
            /\ calls'[c].pc = "done"
            /\ Len(calls'[c].ret) = Len(good)
            /\ \A k \in 1..Len(good) : \E now \in Clock :
                  calls'[c].ret[k] = DecodeRow(good[k], now).f]_vars

\* C15 witness: the sheet holds an undecodable row above the row of j1, and the
\* fetch returned j1 alone
C15_Witness ==
    /\ calls["a"].op = "fetchJobs" /\ calls["a"].pc = "done"
    /\ remote.grids["s1"] = <<HeaderRow, BadRow, GoodRow("j1")>>
    /\ Len(calls["a"].ret) = 1
    /\ calls["a"].ret[1].id = Str("j1")
    /\ calls["a"].ret[1].events = Arr(<<>>)

\* Equality of two values, a property that is undefined counting as absent
SameValue(a, b) == StringifyField(a) = StringifyField(b)

\* C16 (as stated): for every record R, the row saveOne sends for R decodes to a
\* record with R's identifier, company, role, location, status, date applied,
\* description and notes, and with events, emails and AI insights deep-equal to R's.
C16_RowRoundTrip ==
    [][\A c \in Callers :
        (calls[c].pc \in {"append", "update"} /\ calls'[c].pc = "done") =>
            LET R == calls[c].job
                sent == calls'[c].reqs[Len(calls'[c].reqs)].values
            IN  \A now \in Clock :
                    LET d == DecodeRow(sent, now) IN
                    /\ d.k = "object"
                    /\ \A n \in ColNames : SameValue(d.f[n], R[n])]_vars

\* A record none of whose columns is replaced by a default on the way: the eight
\* plain columns are strings, status and dateApplied are not empty, events and
\* emails are present and aiInsights is an object
RowFaithful(R) ==
    /\ \A n \in {"id", "company", "role", "location", "description", "notes"} : IsString(R[n])
    /\ NonEmptyString(R.status) /\ NonEmptyString(R.dateApplied)
    /\ IsArray(R.events) /\ IsArray(R.emails)
    /\ R.aiInsights.t = "object"

\* C16 (amended): for every record R whose location is present, whose status and
\* dateApplied are not empty, whose events and emails are sequences and whose
\* aiInsights is present, the row saveOne sends for R decodes to a record with R's
\* identifier, company, role, location, status, date applied, description and
\* notes, and with events, emails and AI insights deep-equal to R's.
C16_RowRoundTripPresent ==
    [][\A c \in Callers :
        (calls[c].pc \in {"append", "update"} /\ calls'[c].pc = "done"
            /\ RowFaithful(calls[c].job)) =>
            LET R == calls[c].job
                sent == calls'[c].reqs[Len(calls'[c].reqs)].values
            IN  \A now \in Clock :
                    LET d == DecodeRow(sent, now) IN
                    /\ d.k = "object"
                    /\ \A n \in ColNames : SameValue(d.f[n], R[n])]_vars

\* C16 witness: j1 was saved with a note added, and the row the sheet now holds
\* for it decodes to the record that was saved
C16_Witness ==
    /\ calls["a"].op = "saveJob" /\ ~calls["a"].isNew /\ calls["a"].pc = "done"
    /\ calls["a"].index = 0
    /\ calls["a"].job.notes = Str("called")
    /\ RowFaithful(calls["a"].job)
    /\ Len(remote.grids["s1"]) >= 2
    /\ \A now \in Clock :
          \A n \in ColNames :
              DecodeRow(remote.grids["s1"][2], now).f[n] = calls["a"].job[n]

\* C17 (as stated): once getSpreadsheet has returned an identifier, every call made
\* later in the session gets that same identifier and issues no search and no
\* create request.
C17_ResolvedOncePerSession ==
    \A c \in Callers :
        (calls[c].seen # {} /\ calls[c].pc \notin {"idle", "list", "create", "header"}) =>
            /\ calls[c].seen = {calls[c].sid}
            /\ \A k \in 1..Len(calls[c].reqs) :
                  calls[c].reqs[k].api \notin {"drive.files.list", "spreadsheets.create"}

\* C18: getSpreadsheet with an empty cache: when the search answers with at least
\* one file, the first one's identifier is cached and returned and nothing is
\* created; when the search fails or finds nothing, one spreadsheet of the fixed
\* title is created, its identifier is cached, the fixed row of 11 headers is
\* written to its first row, and that identifier is returned; no call creates more
\* than one spreadsheet.
C18_ResolveFindsOrCreates ==
    [][\A c \in Callers :
        /\ (calls[c].pc = "list" /\ calls'[c].pc # "list") =>
              IF ~remote.restricted /\ Len(remote.files) > 0
              THEN /\ state'.spreadsheetId = remote.files[1]
                   /\ calls'[c].sid = remote.files[1]
                   /\ calls'[c].pc \notin {"create", "header"}
                   /\ remote' = remote
                   /\ \A k \in 1..Len(calls'[c].reqs) :
                         calls'[c].reqs[k].api # "spreadsheets.create"
              ELSE /\ calls'[c].pc = "create"
                   /\ state' = state
        /\ (calls[c].pc = "create" /\ calls'[c].pc # "create") =>
              /\ Len(remote'.files) = Len(remote.files) + 1
              /\ \A k \in 1..Len(remote.files) : remote.files[k] # calls'[c].sid
              /\ remote'.files[Len(remote'.files)] = calls'[c].sid
              /\ state'.spreadsheetId = calls'[c].sid
              /\ calls'[c].reqs[Len(calls'[c].reqs)].api = "spreadsheets.create"
              /\ calls'[c].reqs[Len(calls'[c].reqs)].title = SHEET_TITLE
              /\ calls'[c].pc = "header"
        /\ (calls[c].pc = "header" /\ calls'[c].pc # "header") =>
              /\ calls'[c].sid = calls[c].sid
              /\ remote'.grids[calls[c].sid][1] = HeaderRow
              /\ Cardinality(DOMAIN calls'[c].reqs[Len(calls'[c].reqs)].values) = 11
              /\ calls'[c].reqs[Len(calls'[c].reqs)].row = 1
        /\ Cardinality({k \in 1..Len(calls'[c].reqs) :
                           calls'[c].reqs[k].api = "spreadsheets.create"}) <= 1]_vars

\* C18 witness: the search failed although a spreadsheet of the title exists; one
\* was created, its header written, and its identifier is cached and returned
C18_Witness ==
    /\ calls["a"].op = "getSpreadsheet" /\ calls["a"].pc = "done"
    /\ remote.restricted
    /\ remote.files = <<"s1", "n1">>
    /\ calls["a"].sid = "n1"
    /\ state.spreadsheetId = "n1"
    /\ remote.grids["n1"] = <<HeaderRow>>
    /\ Len(calls["a"].reqs) = 3
    /\ calls["a"].reqs[1].api = "drive.files.list"
    /\ calls["a"].reqs[2].api = "spreadsheets.create"
    /\ calls["a"].reqs[3].api = "values.update"

----------------------------------------------------------------------------
(* Import against load: the contact migration (App.tsx:17-35, 183-198) *)

\* The load's record and the import's record for one element agree on the contact
\* list and on the legacy field as it is persisted
SameContactInfo(loaded, imported) ==
    /\ loaded.contacts = imported.contacts
    /\ StringifyField(loaded.recruitingContact) = StringifyField(imported.recruitingContact)

\* The combinations the statement enumerates: contacts absent or a list, the
\* legacy field absent or a string
EnumeratedShape(e) ==
    /\ e.k = "object"
    /\ e.f.contacts.t \in {"absent", "array"}
    /\ e.f.recruitingContact.t \in {"absent", "string"}

\* C21: for every record the slot may hold (contacts absent, empty or populated;
\* legacy string absent, empty or non-empty), the load leaves the contact list and
\* the legacy field as the import of the same element would, up to the generated
\* identifier
C21_ImportMigratesAsLoad ==
    [][(/\ MountStep
        /\ LoadSucceeded
        /\ \A i \in 1..Len(SlotElements) : EnumeratedShape(SlotElements[i]))
       => \A i \in 1..Len(SlotElements) : \E g \in GenIds : \E now \in Clock :
            SameContactInfo(jobs'[i], SanitizeItem(SlotElements[i], g, g, now).f)]_vars

----------------------------------------------------------------------------
(* Identifiers of the collection *)

\* An identifier drawn by Math.random; two draws are taken to differ, so a pair of
\* records sharing a drawn identifier is not counted
Generated(id) == id.t = "string" /\ id.s \in GenIds

\* C22: whatever the slot held and whatever document was imported, no two
\* records of the in-memory collection share an identifier
C22_IdsUnique ==
    \A i, j \in 1..Len(jobs) :
        (i # j /\ jobs[i].id = jobs[j].id) => Generated(jobs[i].id)

----------------------------------------------------------------------------
(* Record creation (LoginScreen.tsx:307-335, App.tsx:80-92) *)

\* A step of the add form's submission: one more record, no dialog involved
AddStep ==
    /\ phase = "mounted" /\ phase' = "mounted"
    /\ ~confirmConfig.isOpen
    /\ Len(jobs') = Len(jobs) + 1

\* What every created record has, whatever the form held
CreatedBasics(r) ==
    /\ \E g \in GenIds : r.id = Str(g)
    /\ \E now \in Clock : r.dateApplied = Str(now)
    /\ r.emails = Arr(<<>>)
    /\ r.events = Arr(<<>>)

\* C23 as stated: the record created through the add form has a generated
\* identifier, status 'applied', empty emails, events and contacts and the current
\* timestamp, and the records that were there are unchanged
C23_RecordCreatedApplied ==
    [][AddStep =>
        /\ CreatedBasics(jobs'[1])
        /\ jobs'[1].status = Str("APPLIED")
        /\ jobs'[1].contacts = Arr(<<>>)
        /\ Tail(jobs') = jobs]_vars

\* C23, amended: the record created through the add form has a generated
\* identifier, the status selected in the form (a member of the enumeration), the
\* contacts entered in the form, empty emails and events, empty notes and the
\* current timestamp; it is placed in front and the records that were there are
\* unchanged and keep their order
C23_RecordCreatedFromForm ==
    [][AddStep =>
        /\ CreatedBasics(jobs'[1])
        /\ \E form \in FormChoices :
              /\ form.status \in JobStatus
              /\ jobs'[1].status = Str(form.status)
              /\ jobs'[1].contacts = Arr(form.contacts)
              /\ jobs'[1].company = Str(form.company)
              /\ jobs'[1].role = Str(form.role)
        /\ jobs'[1].notes = Str("")
        /\ Tail(jobs') = jobs]_vars

\* A record was created in front of a record that was already there
C23_Witness ==
    /\ phase = "mounted"
    /\ Len(jobs) = 2
    /\ toast.message = "New application tracked"
    /\ jobs[1].company = Str("Hooli") /\ jobs[1].status = Str("WISHLIST")
    /\ jobs[2].company # Str("Hooli")

----------------------------------------------------------------------------
(* Extraction calls that fail *)

ErrorTexts == {ErrorLogged(o) : o \in {o \in Outcomes : Failed(o)}}

\* A call of function fn ends in its handler's catch: the call is no longer
\* awaited and console.error received the error
FailureStep(fn) ==
    /\ \E r \in pending : r.fn = fn /\ pending' = pending \ {r}
    /\ log' # log
    /\ log' \in ErrorTexts

\* C24: when parseJobDescription, analyzeEmail or generateInterviewQuestions
\* fails (credential absent or service error), the failure reaches the handler
\* (it is logged, and the add form shows its error line), and the collection, the
\* slot, the selected record and the form fields are as before the call: no email,
\* event or insight is added
C24_FailureLeavesStateUnchanged ==
    [][(\E fn \in {"parse", "email", "questions"} : FailureStep(fn)) =>
        /\ jobs' = jobs
        /\ slot' = slot
        /\ selectedJob' = selectedJob
        /\ modal'.form = modal.form
        /\ modal'.open = modal.open
        /\ FailureStep("parse") => (modal'.parseError = ParseFailedMsg /\ ~modal'.isParsing)]_vars

\* A call has failed, the last one a parse of the filled form, while a record is
\* selected: the
\* record has no email and no questions, the form holds what was typed
C24_Witness ==
    /\ log \in ErrorTexts
    /\ modal.open /\ modal.parseError = ParseFailedMsg
    /\ modal.form \in FormChoices
    /\ selectedJob.set
    /\ Len(jobs) = 1 /\ jobs[1] = selectedJob.job
    /\ jobs[1].emails = Arr(<<>>) /\ jobs[1].aiInsights = Obj("{keySkills:[]}")
    /\ pending = {}

----------------------------------------------------------------------------
(* Extraction results that arrive late *)

\* The call r of the detail view ends in this step
CompletionStep(r) ==
    /\ r \in pending
    /\ r.fn \in {"questions", "email"}
    /\ pending' = pending \ {r}

\* C25: when the result of a question generation or an email analysis is applied,
\* the record it was requested for keeps what was changed in the meantime (its
\* status, the emails logged or the questions generated by another call), and a
\* record that was deleted in the meantime comes back neither into the
\* collection nor into the selection
C25_LateResultChecked ==
    [][\A r \in pending : CompletionStep(r) =>
        /\ Len(jobs') = Len(jobs)
        /\ \A k \in 1..Len(jobs) :
              jobs[k].id = r.job.id =>
                 /\ jobs'[k].status = jobs[k].status
                 /\ r.fn = "questions" => jobs'[k].emails = jobs[k].emails
                 /\ r.fn = "email" => jobs'[k].aiInsights = jobs[k].aiInsights
        /\ (\A k \in 1..Len(jobs) : jobs[k].id # r.job.id) =>
              (jobs' = jobs /\ selectedJob' = selectedJob)]_vars

----------------------------------------------------------------------------
(* The read-modify-write of the sheets service with a second writer *)

\* The identifier a call of saveJob or deleteJob is about
Target(call) == IF call.op = "saveJob" THEN call.job.id ELSE call.id

\* A call has changed the data rows with one of its requests
HasWritten(call) ==
    \E k \in 1..Len(call.reqs) :
        call.reqs[k].api \in {"values.update", "values.append", "deleteDimension"}

\* The row a call is about to overwrite or delete holds the call's identifier
OnTarget(c) ==
    LET grid == remote.grids[calls[c].sid]
        n == calls[c].index + 2 IN
    n <= Len(grid) /\ grid[n].id = Target(calls[c])

\* Caller d changes the data rows in this step
WritesNow(d) == Len(calls'[d].reqs) = Len(calls[d].reqs) + 1 /\ HasWritten(calls'[d])

\* C26: the row a call is about to overwrite or delete, taken from its own fetch,
\* holds the call's identifier right after the fetch, and stops holding it before
\* the call's write only in a step in which another writer changes the sheet;
\* with a second writer deleting a row above the target between the fetch and
\* the write, the write hits a row of another identifier (the witness)
C26_MisplacedOnlyAfterSecondWriter ==
    [][\A c \in Callers :
          /\ (calls[c].pc = "get" /\ calls'[c].pc \in {"update", "delete"}) => OnTarget(c)'
          /\ (/\ calls[c].pc \in {"update", "delete"}
              /\ calls'[c] = calls[c]
              /\ OnTarget(c) /\ ~OnTarget(c)') =>
                 \E d \in Callers \ {c} : WritesNow(d)]_vars

\* Caller a has overwritten or deleted a row for j2 after caller b deleted the row
\* of j1 above it: the row of j3, which no call was about, is gone
C26_Witness ==
    /\ calls["a"].pc = "done" /\ Target(calls["a"]) = Str("j2") /\ HasWritten(calls["a"])
    /\ calls["b"].pc = "done" /\ Target(calls["b"]) = Str("j1") /\ HasWritten(calls["b"])
    /\ HoldingRows(remote.grids["s1"], Str("j3")) = {}

----------------------------------------------------------------------------
(* The selection *)

\* C27: in every reachable state, if a record is selected then the collection
\* holds a record with the same identifier and the same content
C27_SelectionIsOfCollection ==
    selectedJob.set => \E k \in 1..Len(jobs) : jobs[k] = selectedJob.job

----------------------------------------------------------------------------
(* Stored order of the events *)

\* b is a with one event appended at the end
AppendedTo(a, b) == Len(b) = Len(a) + 1 /\ SubSeq(b, 1, Len(a)) = a

\* b is a with completion flags flipped, every event in its position
ToggledIn(a, b) ==
    /\ Len(b) = Len(a)
    /\ \A n \in 1..Len(a) : b[n] = a[n] \/ b[n] = [a[n] EXCEPT !.completed = ~a[n].completed]

\* C28: showing a record's detail view leaves the stored events sequence of every
\* record and the persisted document as they are; a stored sequence changes only
\* by an event appended at its end or by a completion flag flipped in place
C28_DisplayKeepsStoredOrder ==
    [][(phase = "mounted" /\ phase' = "mounted" /\ Len(jobs') = Len(jobs)) =>
        /\ (~selectedJob.set /\ selectedJob'.set) => (jobs' = jobs /\ slot' = slot)
        /\ \A k \in 1..Len(jobs) :
              \/ jobs'[k].events = jobs[k].events
              \/ AppendedTo(jobs[k].events.a, jobs'[k].events.a)
              \/ ToggledIn(jobs[k].events.a, jobs'[k].events.a)]_vars

----------------------------------------------------------------------------
(* Overlapping calls of getSpreadsheet *)

\* C29: when no spreadsheet of the fixed title existed before the session, the
\* calls of the session, overlapping or not, create at most one spreadsheet in
\* total, and getSpreadsheet returns the same identifier to all of them
C29_AtMostOneCreated ==
    (\A k \in 1..Len(remote.files) : remote.files[k] \notin OldSheetIds) =>
        /\ Cardinality(Created) <= 1
        /\ Cardinality(session.returned) <= 1

----------------------------------------------------------------------------
(* Deleting through the dialog *)

\* The dialog is closed in this step, by Cancel or by Confirm
DialogClosed == confirmConfig.isOpen /\ ~confirmConfig'.isOpen

\* Some record of the collection has no record of its identifier left
RemovedSome == \E k \in 1..Len(jobs) : \A m \in 1..Len(jobs') : jobs'[m].id # jobs[k].id

\* C30: raising the delete dialog does not change the collection; closing it
\* either changes nothing (Cancel) or removes exactly the records of the requested
\* identifier, the others keeping their content and order, and clears the
\* selection (Confirm); closing a dialog raised by an import either changes
\* nothing or installs the imported list as it is, so the request that was
\* replaced by the later dialog is not executed; no record goes away in any
\* other step
C30_RemovedOnlyByConfirm ==
    [][(phase = "mounted" /\ phase' = "mounted") =>
        /\ (~confirmConfig.isOpen /\ confirmConfig'.isOpen) => jobs' = jobs
        /\ (DialogClosed /\ confirmConfig.onConfirm.kind = "delete") =>
              \/ jobs' = jobs /\ selectedJob' = selectedJob /\ slot' = slot
              \/ /\ jobs' = OtherId(jobs, confirmConfig.onConfirm.id)
                 /\ selectedJob' = NoSelection
                 /\ pendingImport' = pendingImport
        /\ (DialogClosed /\ confirmConfig.onConfirm.kind = "import") =>
              \/ jobs' = jobs /\ selectedJob' = selectedJob /\ slot' = slot
              \/ jobs' = confirmConfig.onConfirm.jobs /\ selectedJob' = NoSelection
        /\ RemovedSome => DialogClosed]_vars

\* The record between two records of another identifier was deleted through the
\* dialog: the two are left, in their order, and nothing is selected
C30_Witness ==
    /\ phase = "mounted"
    /\ toast.message = "Application deleted"
    /\ ~confirmConfig.isOpen /\ confirmConfig.onConfirm.kind = "delete"
    /\ confirmConfig.onConfirm.id = Str("j1")
    /\ ~selectedJob.set
    /\ jobs = <<CurrentElem.f, BothElem.f>>

====
